---- MODULE Spec2Model ----
(***************************************************************************)
(* A model of the hierarchical state machine of include/state.h and of     *)
(* the animation blending layer of include/anim.h.                         *)
(*                                                                         *)
(* Numbers.  The code computes in float; the model computes in integers.   *)
(* A speed or a weight is held in tenths (1.0 is 10), a time in whole      *)
(* time steps, and a normalized delta in Unit-ths (1.0 is Unit).           *)
(*                                                                         *)
(* Hooks.  The start, done and apply hooks of a MachineDefinition are      *)
(* supplied by the user of the machine.  Within one call of Init, Update   *)
(* or Apply the done hook is the set of state ids it reports done and the  *)
(* start hook the set of state ids it refuses; both sets are chosen anew   *)
(* at every call.                                                          *)
(***************************************************************************)
EXTENDS Integers, Sequences, FiniteSets, TLC

VARIABLES
    cfg,      \* which machine definition the root machine was built from
    m,        \* the root Machine: definition, m_active, m_activeQueue, m_applicable
    input,    \* *m_input, the input shared by the whole machine tree
    log,      \* what the last call did: one record per hook call and decision
    last,     \* the last call of the driver
    ticks,    \* Updates since Init while the driver follows the two-state schedule
    bdef,     \* a MachineDefinition under construction
    bres,     \* the last builder call and its outcome
    pdefault, \* the default value handed to Param::Joins
    pparams,  \* the params handed to Param::Joins
    pvalue,   \* <<v>> once Param::Joins returned v
    attributes, \* Animator::attributes, the AttributeSet
    values,   \* Animator::values: the value of the attribute
    alog,     \* what the last call did: one record per animator updated
    blend,    \* the thresholds of the Animator and what the last Apply pushed
    combined, \* a condition built by And, Or or Not, and what it returned
    puppet,   \* an Animator of two attributes: its AttributeSet, its values,
              \* the attributes whose value is of a type calc::For knows,
              \* the outro set of the last Transition, and whether the
              \* program has faulted
    dense,    \* an id::DenseMap: its local Area, its values, and what its
              \* user has set and not removed
    small     \* an id::SmallSet, and where a running Remove stands

machineVars == <<cfg, m, input, log, ticks>>
buildVars == <<bdef, bres>>
paramVars == <<pdefault, pparams, pvalue>>
animVars == <<attributes, values, alog>>
idVars == <<dense, small>>
extraVars == <<blend, puppet, combined, dense, small>>
vars == <<cfg, m, input, log, last, ticks, bdef, bres, pdefault, pparams, pvalue,
          attributes, values, alog, blend, puppet, combined, dense, small>>

(***************************************************************************)
(* Bounds of the model.                                                    *)
(***************************************************************************)
\* ticks the two-state schedule holds the speed at 0 before raising it
LowTicks == 5
\* length of the two-state schedule
ScheduleTicks == 10
\* states added to a definition under construction
MaxStates == 2
\* transitions added to a definition under construction
MaxTrans == 2
\* params handed to one call of Param::Joins
MaxParams == 3
\* animators an attribute holds at once
MaxAnimators == 2
\* Updates of an attribute
MaxFrames == 4
\* Applies of the hook on an attribute
MaxApplies == 2
\* conditions handed to And, Or or Not
MaxConds == 3
\* animators the two-attribute animator holds at once
MaxCrossfade == 4
\* Updates of an attribute of the two-attribute animator
MaxPuppetFrames == 3
\* identifiers defined in id::memory
MaxUid == 3
\* calls made on a DenseMap
MaxDenseOps == 4

\* The modulus of uint8_t, the local id type of DenseMap8.
LidMod == 256

\* The unique ids of the defined identifiers.
Uids == 0..(MaxUid - 1)

\* Stands for 2^64, the modulus of size_t: larger than any list of the model.
SizeMod == 1073741824

\* ticks is <<n>> after the n-th tick of the schedule, and Off when the driver
\* is not following the schedule.
Off == <<>>

(***************************************************************************)
(* Transition (state.h 138-191).                                           *)
(***************************************************************************)
\* Transition(end): from any state, instantly
TransitionAny(end) ==
    [hasStart |-> FALSE, start |-> "", end |-> end, cond |-> "none", live |-> FALSE]
\* Transition(end, condition)
TransitionCond(end, cond) ==
    [hasStart |-> FALSE, start |-> "", end |-> end, cond |-> cond, live |-> FALSE]
\* Transition(end, condition, live, options)
TransitionLive(end, cond, live) ==
    [hasStart |-> FALSE, start |-> "", end |-> end, cond |-> cond, live |-> live]
\* Transition(start, end, condition, live, options)
TransitionFrom(start, end, cond, live) ==
    [hasStart |-> TRUE, start |-> start, end |-> end, cond |-> cond, live |-> live]
\* Transition(start, end, waitForDone)
TransitionAuto(start, end, waitForDone) ==
    [hasStart |-> TRUE, start |-> start, end |-> end, cond |-> "none", live |-> ~waitForDone]

HasStart(t) == t.hasStart
IsLive(t) == t.live

\* The user's conditions, by name, over the input.
CondHolds(cond, in) ==
    CASE cond = "fast" -> in.speed > 5
      [] cond = "slow" -> ~(in.speed > 5)
      [] cond = "jump" -> in.jump
      [] OTHER -> FALSE

\* Transition::Eval: an absent condition is always true.
Eval(t, in) == t.cond = "none" \/ CondHolds(t.cond, in)

\* And(a, b...), Or(a, b...) and Not(a, b...) (state.h 105-136) on the
\* conditions from the i-th on, called with a value: the overload of one
\* condition returns it, the other combines the first with the rest.
RECURSIVE And(_, _, _)
And(conds, i, value) ==
    IF i = Len(conds) THEN CondHolds(conds[i], value)
    ELSE CondHolds(conds[i], value) /\ And(conds, i + 1, value)

RECURSIVE Or(_, _, _)
Or(conds, i, value) ==
    IF i = Len(conds) THEN CondHolds(conds[i], value)
    ELSE CondHolds(conds[i], value) \/ Or(conds, i + 1, value)

RECURSIVE Not(_, _, _)
Not(conds, i, value) ==
    IF i = Len(conds) THEN CondHolds(conds[i], value)
    ELSE ~(CondHolds(conds[i], value) \/ Not(conds, i + 1, value))

(***************************************************************************)
(* Definition (state.h 193-253) and MachineOptions (255-281).              *)
(* An optional sub-machine is a sequence of length 0 or 1.                 *)
(***************************************************************************)
\* Definition(id, data, fixedEffect)
StateFixed(id, fixedEffect) ==
    [id |-> id, effectFn |-> "none", fixedEffect |-> fixedEffect,
     effectLive |-> FALSE, sub |-> <<>>, transitions |-> <<>>]
\* Definition(id, data, effect, effectLive)
StateEffect(id, fn, effectLive) ==
    [id |-> id, effectFn |-> fn, fixedEffect |-> 0,
     effectLive |-> effectLive, sub |-> <<>>, transitions |-> <<>>]
\* Definition(id, sub)
StateSub(id, sub) ==
    [id |-> id, effectFn |-> "none", fixedEffect |-> 0,
     effectLive |-> FALSE, sub |-> <<sub>>, transitions |-> <<>>]

\* The user's effect functions, by name, over the input.
EffectFn(fn, in) ==
    CASE fn = "speed" -> in.speed
      [] fn = "rest" -> 10 - in.speed
      [] OTHER -> 0

GetEffect(sd, in) == IF sd.effectFn # "none" THEN EffectFn(sd.effectFn, in) ELSE sd.fixedEffect

IsEffectLiveAlways(sd) == sd.effectFn # "none"

IsEffectLive(sd) == IF sd.effectFn # "none" THEN sd.effectLive ELSE FALSE

\* MachineOptions{}: every member value-initialized.
DefaultOptions ==
    [AppliedMax |-> 0, AppliedPriority |-> "none", ActiveMax |-> 0,
     ActivePriority |-> "none", FullyActive |-> FALSE, ProcessQueueImmediately |-> FALSE]

FiniteNoCap == DefaultOptions

\* Finite(): MachineOptions{.AppliedMax=1, .ActiveMax=1}
Finite == [DefaultOptions EXCEPT !.AppliedMax = 1, !.ActiveMax = 1]

(***************************************************************************)
(* MachineDefinition (state.h 283-374).  name labels the definition in the *)
(* log; the code has no such member.                                       *)
(***************************************************************************)
NewDefinition(name, options) ==
    [name |-> name, states |-> <<>>, transitions |-> <<>>, options |-> options]

AddState(def, sd) == [def EXCEPT !.states = Append(@, sd)]

HasState(def, id) == \E i \in 1..Len(def.states) : def.states[i].id = id

\* GetState: the first state with the id (0 stands for nullptr).
StateIndex(def, id) ==
    IF HasState(def, id)
    THEN CHOOSE i \in 1..Len(def.states) :
            /\ def.states[i].id = id
            /\ \A j \in 1..(i-1) : def.states[j].id # id
    ELSE 0

GetState(def, id) == def.states[StateIndex(def, id)]

AddTransitionNoCheck(def, t) ==
    IF HasStart(t) /\ HasState(def, t.start)
    THEN [def |-> [def EXCEPT !.states[StateIndex(def, t.start)].transitions = Append(@, t)],
          thrown |-> "none"]
    ELSE [def |-> [def EXCEPT !.transitions = Append(@, t)], thrown |-> "none"]

\* AddTransition: the definition afterwards and the exception thrown, if any.
AddTransition(def, t) ==
    IF StateIndex(def, t.end) = 0
    THEN [def |-> def, thrown |-> "end"]
    ELSE IF HasStart(t)
         THEN IF StateIndex(def, t.start) = 0
              THEN [def |-> def, thrown |-> "start"]
              ELSE [def |-> [def EXCEPT !.states[StateIndex(def, t.start)].transitions
                                            = Append(@, t)],
                    thrown |-> "none"]
         ELSE [def |-> [def EXCEPT !.transitions = Append(@, t)], thrown |-> "none"]

RECURSIVE AddStates(_, _)
AddStates(def, sds) ==
    IF sds = <<>> THEN def ELSE AddStates(AddState(def, Head(sds)), Tail(sds))

RECURSIVE AddTransitions(_, _)
AddTransitions(def, ts) ==
    IF ts = <<>> THEN def ELSE AddTransitions(AddTransition(def, Head(ts)).def, Tail(ts))

(***************************************************************************)
(* The machine definitions the root machine is built from, each put        *)
(* together with AddState and AddTransition as a user of state.h does.     *)
(***************************************************************************)
\* idle -> running on speed > 0.5, live; Init seeds idle.
TwoStateDef ==
    AddTransitions(
        AddStates(NewDefinition("two", DefaultOptions),
                  <<StateFixed("idle", 10), StateFixed("running", 10)>>),
        <<TransitionAny("idle"),
          TransitionFrom("idle", "running", "fast", TRUE)>>)

\* A finite machine: at most one state active, at most one applied.
FiniteDef ==
    AddTransitions(
        AddStates(NewDefinition("finite", Finite),
                  <<StateFixed("a", 10), StateFixed("b", 10), StateFixed("c", 10)>>),
        <<TransitionAny("a"),
          TransitionLive("b", "jump", TRUE),
          TransitionFrom("a", "b", "fast", TRUE),
          TransitionFrom("a", "c", "fast", TRUE),
          TransitionAuto("b", "a", TRUE),
          TransitionFrom("b", "c", "jump", TRUE),
          TransitionFrom("c", "a", "slow", FALSE)>>)

\* A fuzzy machine: live and deferred transitions, two transitions that can
\* fire for one state in one Update, a transition of a state to itself.
FuzzyDef ==
    AddTransitions(
        AddStates(NewDefinition("fuzzy", DefaultOptions),
                  <<StateEffect("walk", "rest", TRUE), StateEffect("run", "speed", FALSE),
                    StateFixed("hop", 10)>>),
        <<TransitionAny("walk"),
          TransitionLive("hop", "jump", TRUE),
          TransitionLive("hop", "fast", TRUE),
          TransitionFrom("walk", "run", "fast", TRUE),
          TransitionFrom("run", "run", "fast", TRUE),
          TransitionAuto("run", "walk", TRUE)>>)

\* A fully active machine: every state always active, blended by weight.
BlendDef ==
    AddTransitions(
        AddStates(NewDefinition("blend", [DefaultOptions EXCEPT !.FullyActive = TRUE]),
                  <<StateEffect("still", "rest", TRUE), StateEffect("forward", "speed", TRUE),
                    StateFixed("sway", 5)>>),
        <<TransitionFrom("still", "forward", "fast", TRUE),
          TransitionAuto("sway", "still", TRUE)>>)

\* The sub-machines of the tree.
GroundedDef ==
    AddStates(NewDefinition("grounded", [DefaultOptions EXCEPT !.FullyActive = TRUE]),
              <<StateEffect("gidle", "rest", TRUE), StateEffect("gmove", "speed", TRUE)>>)

AirDef ==
    AddTransitions(
        AddStates(NewDefinition("air", DefaultOptions),
                  <<StateFixed("rise", 10), StateFixed("fall", 10), StateFixed("drift", 5)>>),
        <<TransitionAny("rise"),
          TransitionLive("drift", "fast", TRUE),
          TransitionAuto("rise", "fall", TRUE)>>)

\* A machine of machines, its queue processed at the end of each Update.
TreeDef ==
    AddTransitions(
        AddStates(NewDefinition("tree", [DefaultOptions EXCEPT !.ProcessQueueImmediately = TRUE]),
                  <<StateSub("grounded", GroundedDef), StateSub("air", AirDef)>>),
        <<TransitionCond("grounded", "slow"),
          TransitionFrom("grounded", "air", "jump", TRUE),
          TransitionAuto("air", "grounded", TRUE)>>)

\* A capped machine: at most two states active, three that global live
\* transitions can queue in one Update, and a state that queues two others
\* while it is updated.
Capped == [DefaultOptions EXCEPT !.ActiveMax = 2]

PoolStates ==
    <<StateFixed("x", 10), StateFixed("y", 10), StateFixed("z", 5), StateFixed("w", 5)>>

PoolTransitions ==
    <<TransitionLive("x", "fast", TRUE),
      TransitionLive("y", "fast", TRUE),
      TransitionLive("z", "jump", TRUE),
      TransitionFrom("x", "z", "jump", TRUE),
      TransitionFrom("x", "w", "jump", TRUE),
      TransitionAuto("y", "x", TRUE)>>

PoolDef ==
    AddTransitions(
        AddStates(NewDefinition("pool", [Capped EXCEPT !.AppliedMax = 1]),
                  PoolStates),
        PoolTransitions)

\* The capped machine, its queue processed at the end of each Update.
PoolNowDef ==
    AddTransitions(
        AddStates(NewDefinition("poolnow", [Capped EXCEPT !.ProcessQueueImmediately = TRUE]),
                  PoolStates),
        PoolTransitions)

\* A capped machine with comparators: the queue is cut and the applied
\* states are chosen by effect, the greater first.
Ranked ==
    [Capped EXCEPT !.ActivePriority = "effect", !.AppliedMax = 1,
                   !.AppliedPriority = "effect"]

RankedDef ==
    AddTransitions(
        AddStates(NewDefinition("ranked", Ranked),
                  <<StateFixed("lo", 3), StateFixed("mid", 6), StateFixed("hi", 9)>>),
        <<TransitionLive("lo", "fast", TRUE),
          TransitionLive("mid", "fast", TRUE),
          TransitionLive("hi", "jump", TRUE)>>)

Cfgs == {"two", "finite", "fuzzy", "blend", "tree"}

\* The machines with ActiveMax set.
CapCfgs == {"finite", "pool", "poolnow", "ranked"}

\* A definition by its name: what the pointer m_def of a Machine points at.
DefOf(c) ==
    CASE c = "two" -> TwoStateDef
      [] c = "finite" -> FiniteDef
      [] c = "fuzzy" -> FuzzyDef
      [] c = "blend" -> BlendDef
      [] c = "tree" -> TreeDef
      [] c = "grounded" -> GroundedDef
      [] c = "air" -> AirDef
      [] c = "pool" -> PoolDef
      [] c = "poolnow" -> PoolNowDef
      [] c = "ranked" -> RankedDef

\* Machine::GetDefinition
MDef(mach) == DefOf(mach.def)

(***************************************************************************)
(* Machine and Active (state.h 376-518).                                   *)
(* A Machine is [def, active, queue, applicable]; an Active is             *)
(* [id, effect, sub].  applicable holds pointers into m_active: a pointer  *)
(* is the slot it points at.                                               *)
(*                                                                         *)
(* The operations thread a context [m, log, n, res] through the code: m    *)
(* is the machine operated on, log the record of what was done, n the      *)
(* count Transitions returns and res the outcome of each transition of     *)
(* the list it was given.  env is what the call was given: the input and   *)
(* the hooks' answers.                                                     *)
(***************************************************************************)
NewMachine(def) == [def |-> def.name, active |-> <<>>, queue |-> <<>>, applicable |-> <<>>]

\* Active(def, subject, input, update, parent)
NewActive(sd, in) ==
    [id |-> sd.id, effect |-> GetEffect(sd, in),
     sub |-> IF Len(sd.sub) > 0 THEN <<NewMachine(sd.sub[1])>> ELSE <<>>]

HasSub(a) == Len(a.sub) > 0

Ctx(mach, lg) == [m |-> mach, log |-> lg, n |-> 0, res |-> <<>>]
Note(c, e) == [c EXCEPT !.log = Append(@, e)]
Ids(as) == [i \in 1..Len(as) |-> as[i].id]
RemoveAt(s, i) == SubSeq(s, 1, i-1) \o SubSeq(s, i+1, Len(s))

\* The Definition an Active points at.
ADef(mach, a) == GetState(MDef(mach), a.id)

GetActiveOrQueued(mach, id) ==
    \/ \E i \in 1..Len(mach.active) : mach.active[i].id = id
    \/ \E i \in 1..Len(mach.queue) : mach.queue[i].id = id

GetActiveNever(mach, id) == FALSE

\* Machine::GetActive(id) != nullptr
GetActive(mach, id) == \E i \in 1..Len(mach.active) : mach.active[i].id = id

\* MachineDefinition::Start: the start hook's answer.
Start(id, env) == id \notin env.fail

\* MachineDefinition::IsDone: the done hook's answer.
DoneHook(id, env) == id \in env.done

\* A sort_type, by name: should a be sorted before b?
Before(cmp, a, b) ==
    CASE cmp = "effect" -> a.effect > b.effect
      [] OTHER -> FALSE

\* std::sort on a short range is an insertion sort.
RECURSIVE InsertSorted(_, _, _)
InsertSorted(s, x, cmp) ==
    IF s = <<>> THEN <<x>>
    ELSE IF Before(cmp, x, s[Len(s)])
         THEN Append(InsertSorted(SubSeq(s, 1, Len(s)-1), x, cmp), s[Len(s)])
         ELSE Append(s, x)

RECURSIVE SortFrom(_, _, _, _)
SortFrom(done, s, i, cmp) ==
    IF i > Len(s) THEN done ELSE SortFrom(InsertSorted(done, s[i], cmp), s, i+1, cmp)

Sort(s, cmp) == SortFrom(<<>>, s, 1, cmp)

ActiveIsDoneIgnoringQueue(a, env) == 
    IF HasSub(a) THEN \A i \in 1..Len(a.sub[1].active) : DoneHook(a.sub[1].active[i].id, env)
    ELSE DoneHook(a.id, env)

\* Active::IsDone
RECURSIVE ActiveIsDone(_, _)
ActiveIsDone(a, env) ==
    IF HasSub(a)
    THEN IF Len(a.sub[1].queue) > 0
         THEN FALSE
         ELSE \A i \in 1..Len(a.sub[1].active) : ActiveIsDone(a.sub[1].active[i], env)
    ELSE DoneHook(a.id, env)

OnlyLiveNever(done) == FALSE

\* UpdateActive: the onlyLive it passes to Transitions for a state's own transitions.
OnlyLive(done) == ~done

AlwaysActiveNever(mach) == FALSE

\* UpdateActive: are all states always active, with no done or transition logic?
AlwaysActive(mach) == MDef(mach).options.FullyActive

IsLiveNever(t) == FALSE

\* Transitions: is the transition live?
TransIsLive(t) == IsLive(t)

RECURSIVE MachineTransitionsFrom(_, _, _, _, _, _)
RECURSIVE MachineInit(_, _)
RECURSIVE MachineInitStates(_, _, _)
RECURSIVE MachineUpdate(_, _)
RECURSIVE MachineUpdateActiveFrom(_, _, _)
RECURSIVE ActiveUpdate(_, _, _)

\* The Active and the log once the sub-machine of a new Active has run Init.
WithSub(state0, subc) == [state |-> [state0 EXCEPT !.sub = <<subc.m>>], log |-> subc.log]

\* Active<T> state(stateDef, ...); if (state.HasSub()) state.GetSub()->Init(update)
Instantiate(state0, lg, env) ==
    IF HasSub(state0)
    THEN WithSub(state0, MachineInit(Ctx(state0.sub[1], lg), env))
    ELSE [state |-> state0, log |-> lg]

\* What Transitions logs of a transition and its outcome.
TransEvent(c, t, onlyLive, outro, env, r) ==
    [k |-> "trans", mach |-> c.m.def, outro |-> outro, end |-> t.end,
     live |-> t.live, holds |-> Eval(t, env.input), onlyLive |-> onlyLive,
     active |-> Ids(c.m.active), queued |-> Len(c.m.queue), res |-> r]

\* Machine::Transitions, a transition skipped or found false.
Skipped(c, t, onlyLive, outro, env, r) ==
    [c EXCEPT !.log = Append(@, TransEvent(c, t, onlyLive, outro, env, r)),
              !.res = Append(@, r)]

StartedCounted(c, t, onlyLive, outro, env, st) ==
    IF Start(t.end, env)
    THEN [m |-> [c.m EXCEPT !.queue = Append(@, st.state)],
          log |-> Append(st.log, TransEvent(c, t, onlyLive, outro, env, "fired")),
          n |-> c.n + 1,
          res |-> Append(c.res, "fired")]
    ELSE [m |-> c.m,
          log |-> Append(st.log, TransEvent(c, t, onlyLive, outro, env, "refused")),
          n |-> c.n + 1,
          res |-> Append(c.res, "refused")]

StartedAnyway(c, t, onlyLive, outro, env, st) ==
    IF Start(t.end, env)
    THEN [m |-> [c.m EXCEPT !.queue = Append(@, st.state)],
          log |-> Append(st.log, TransEvent(c, t, onlyLive, outro, env, "fired")),
          n |-> c.n + 1,
          res |-> Append(c.res, "fired")]
    ELSE [m |-> [c.m EXCEPT !.queue = Append(@, st.state)],
          log |-> Append(st.log, TransEvent(c, t, onlyLive, outro, env, "refused")),
          n |-> c.n,
          res |-> Append(c.res, "refused")]

\* Machine::Transitions, the start hook asked about the new Active.
Started(c, t, onlyLive, outro, env, st) ==
    IF Start(t.end, env)
    THEN [m |-> [c.m EXCEPT !.queue = Append(@, st.state)],
          log |-> Append(st.log, TransEvent(c, t, onlyLive, outro, env, "fired")),
          n |-> c.n + 1,
          res |-> Append(c.res, "fired")]
    ELSE [c EXCEPT !.log = Append(st.log, TransEvent(c, t, onlyLive, outro, env, "refused")),
                   !.res = Append(@, "refused")]

\* Machine::Transitions, from the i-th transition of the list on.
MachineTransitionsFrom(c, ts, i, onlyLive, outro, env) ==
    IF i > Len(ts) THEN c
    ELSE MachineTransitionsFrom(
            IF onlyLive /\ ~TransIsLive(ts[i])
            THEN Skipped(c, ts[i], onlyLive, outro, env, "filtered")
            ELSE IF GetActive(c.m, ts[i].end)
            THEN Skipped(c, ts[i], onlyLive, outro, env, "active")
            ELSE IF ~Eval(ts[i], env.input)
            THEN Skipped(c, ts[i], onlyLive, outro, env, "false")
            ELSE Started(c, ts[i], onlyLive, outro, env,
                         Instantiate(NewActive(GetState(MDef(c.m), ts[i].end), env.input),
                                     c.log, env)),
            ts, i + 1, onlyLive, outro, env)

\* Machine::Transitions
MachineTransitions(c, ts, onlyLive, outro, env) ==
    MachineTransitionsFrom([c EXCEPT !.n = 0, !.res = <<>>], ts, 1, onlyLive, outro, env)

\* Machine::Init, the start hook asked about the Active of a defined state.
InitStarted(c, id, env, st) ==
    IF Start(id, env)
    THEN [c EXCEPT !.m.queue = Append(@, st.state),
                   !.log = Append(st.log, [k |-> "start", mach |-> c.m.def, id |-> id,
                                           ok |-> TRUE])]
    ELSE [c EXCEPT !.log = Append(st.log, [k |-> "start", mach |-> c.m.def, id |-> id,
                                           ok |-> FALSE])]

\* Machine::Init, the loop over the states of a fully active machine.
MachineInitStates(c, i, env) ==
    IF i > Len(MDef(c.m).states) THEN c
    ELSE MachineInitStates(
            InitStarted(c, MDef(c.m).states[i].id, env,
                        Instantiate(NewActive(MDef(c.m).states[i], env.input), c.log, env)),
            i + 1, env)

MachineInitAlways(c, env) ==
    IF MDef(c.m).options.FullyActive /\ MDef(c.m).transitions = <<>>
    THEN MachineInitStates(c, 1, env)
    ELSE IF MDef(c.m).transitions # <<>>
         THEN MachineTransitions(c, MDef(c.m).transitions, FALSE, "", env)
         ELSE c

\* Machine::Init
MachineInit(c, env) ==
    IF c.m.active # <<>> \/ c.m.queue # <<>> THEN c
    ELSE IF MDef(c.m).options.FullyActive /\ MDef(c.m).transitions = <<>>
         THEN MachineInitStates(c, 1, env)
         ELSE IF MDef(c.m).transitions # <<>>
              THEN MachineTransitions(c, MDef(c.m).transitions, FALSE, "", env)
              ELSE c

\* options.ActiveMax - m_active.size(), computed in size_t
RemainingSpace(mach) ==
    (MDef(mach).options.ActiveMax - Len(mach.active)) % SizeMod

ProcessQueueNoCap(c) ==
    [c EXCEPT !.m.active = @ \o c.m.queue, !.m.queue = <<>>]

KeptTail(mach, options, space) ==
    IF options.ActiveMax > 0
    THEN IF space >= Len(mach.queue) THEN mach.queue
         ELSE IF space > 0
              THEN SubSeq(mach.queue, Len(mach.queue) - space + 1, Len(mach.queue))
              ELSE <<>>
    ELSE mach.queue

\* Machine::ProcessQueue, the queued states that become active.
Kept(mach, options, space) ==
    IF options.ActiveMax > 0
    THEN IF space >= Len(mach.queue) THEN mach.queue
         ELSE IF space > 0
              THEN SubSeq(IF options.ActivePriority # "none"
                          THEN Sort(mach.queue, options.ActivePriority)
                          ELSE mach.queue, 1, space)
              ELSE <<>>
    ELSE mach.queue

\* Machine::ProcessQueue, the queue cut to kept and moved to the active list.
Flushed(c, kept) ==
    [c EXCEPT !.m.active = @ \o kept,
              !.m.queue = <<>>,
              !.log = Append(@, [k |-> "flush", mach |-> c.m.def,
                                 queued |-> Ids(c.m.queue), kept |-> Ids(kept)])]

\* Machine::ProcessQueue
MachineProcessQueue(c) ==
    IF c.m.queue = <<>> THEN c
    ELSE Flushed(c, Kept(c.m, MDef(c.m).options, RemainingSpace(c.m)))

\* Active::Update, the sub-machine of the i-th active state updated.
SubUpdated(c, i, subc) == [c EXCEPT !.m.active[i].sub = <<subc.m>>, !.log = subc.log]

\* Active::Update of the i-th active state
ActiveUpdate(c, i, env) ==
    IF HasSub(c.m.active[i])
    THEN SubUpdated(c, i, MachineUpdate(Ctx(c.m.active[i].sub[1], c.log), env))
    ELSE IF IsEffectLive(ADef(c.m, c.m.active[i]))
         THEN [c EXCEPT !.m.active[i].effect =
                            GetEffect(ADef(c.m, c.m.active[i]), env.input)]
         ELSE c

\* What UpdateActive logs of the state it visits and of what IsDone returned.
VisitEvent(mach, a, done, env) ==
    [k |-> "visit", mach |-> mach.def, id |-> a.id,
     done |-> done, hasSub |-> HasSub(a),
     subQueue |-> IF HasSub(a) THEN Len(a.sub[1].queue) ELSE 0,
     subIds |-> IF HasSub(a) THEN Ids(a.sub[1].active) ELSE <<>>,
     reported |-> IF HasSub(a)
                  THEN {a.sub[1].active[j].id : j \in 1..Len(a.sub[1].active)} \cap env.done
                  ELSE {a.id} \cap env.done]

\* Machine::UpdateActive: the i-th active state, not done, is updated.
Visited(c, i, done, env) ==
    IF ~done
    THEN ActiveUpdate(Note(c, VisitEvent(c.m, c.m.active[i], done, env)), i, env)
    ELSE Note(c, VisitEvent(c.m, c.m.active[i], done, env))

LeftWhenDone(c, i, id, done) ==
    [c EXCEPT !.m.active = IF done THEN RemoveAt(@, i) ELSE @,
              !.log = Append(@, [k |-> "left", mach |-> c.m.def, id |-> id,
                                 done |-> done, n |-> c.n, removed |-> done,
                                 effect |-> c.m.active[i].effect, res |-> c.res])]

\* Machine::UpdateActive: the i-th active state, done or with a transition
\* that fired, is erased.
Left(c, i, id, done) ==
    [c EXCEPT !.m.active = IF done \/ c.n > 0 THEN RemoveAt(@, i) ELSE @,
              !.log = Append(@, [k |-> "left", mach |-> c.m.def, id |-> id,
                                 done |-> done, n |-> c.n, removed |-> (done \/ c.n > 0),
                                 effect |-> c.m.active[i].effect, res |-> c.res])]

\* Machine::UpdateActive: the i-th active state, IsDone having returned done.
VisitActive(c, i, done, env) ==
    Left(MachineTransitions(Visited(c, i, done, env),
                            ADef(c.m, c.m.active[i]).transitions,
                            OnlyLive(done), c.m.active[i].id, env),
         i, c.m.active[i].id, done)

\* Machine::UpdateActive, from the i-th active state on.  erase(state) leaves
\* the iterator on the slot of the erased state, where the next state now is:
\* the list is shorter exactly when the state was erased.
MachineUpdateActiveNext(c, i, len, env) ==
    MachineUpdateActiveFrom(c, IF Len(c.m.active) < len THEN i ELSE i + 1, env)

MachineUpdateActiveFrom(c, i, env) ==
    IF i > Len(c.m.active) THEN c
    ELSE IF AlwaysActive(c.m)
         THEN MachineUpdateActiveFrom(ActiveUpdate(c, i, env), i + 1, env)
         ELSE MachineUpdateActiveNext(
                 VisitActive(c, i, ActiveIsDone(c.m.active[i], env), env),
                 i, Len(c.m.active), env)

\* Machine::UpdateActive
MachineUpdateActive(c, env) == MachineUpdateActiveFrom(c, 1, env)

MachineUpdateEndNever(c) == c

\* Machine::Update, the queue processed at the end when the options say so.
MachineUpdateEnd(c) ==
    IF MDef(c.m).options.ProcessQueueImmediately /\ c.m.queue # <<>>
    THEN MachineProcessQueue(c)
    ELSE c

HasStatesActiveOnly(mach) == Len(mach.active) > 0

\* Machine::Update: hasState, do we have any states?
HasStates(mach) == Len(mach.active) > 0 \/ Len(mach.queue) > 0

MachineUpdateGlobalLast(c, env) ==
    MachineUpdateEnd(
        IF ~MDef(c.m).options.FullyActive
        THEN MachineTransitions(MachineUpdateActive(MachineProcessQueue(c), env),
                                MDef(c.m).transitions, HasStates(c.m), "", env)
        ELSE MachineUpdateActive(MachineProcessQueue(c), env))

\* Machine::Update
MachineUpdate(c, env) ==
    MachineUpdateEnd(
        MachineUpdateActive(
            MachineProcessQueue(
                IF ~MDef(c.m).options.FullyActive
                THEN MachineTransitions(c, MDef(c.m).transitions, HasStates(c.m), "", env)
                ELSE c),
            env))

\* The slots of m_active in the order of the comparator over what they point at.
SortSlots(mach, cmp) ==
    LET tagged == [i \in 1..Len(mach.active) |->
                      [slot |-> i, effect |-> mach.active[i].effect]]
        sorted == Sort(tagged, cmp)
    IN  [i \in 1..Len(sorted) |-> sorted[i].slot]

ApplyNoCap(c) ==
    IF c.m.active = <<>> THEN c
    ELSE [c EXCEPT !.m.applicable = [i \in 1..Len(c.m.active) |-> i]]

MachineApplyAlways(c) ==
    IF c.m.active = <<>>
    THEN [c EXCEPT !.m.applicable = <<>>,
                   !.log = Append(@, [k |-> "apply", mach |-> c.m.def, ids |-> <<>>])]
    ELSE ApplyNoCap(c)

MachineApplyUnsorted(c) ==
    IF c.m.active = <<>> THEN c
    ELSE [c EXCEPT !.m.applicable =
                      [i \in 1..(IF MDef(c.m).options.AppliedMax > 0
                                    /\ MDef(c.m).options.AppliedMax < Len(c.m.active)
                                 THEN MDef(c.m).options.AppliedMax
                                 ELSE Len(c.m.active)) |-> i],
                   !.log = Append(@, [k |-> "apply", mach |-> c.m.def,
                                      ids |-> SubSeq(Ids(c.m.active), 1,
                                                 IF MDef(c.m).options.AppliedMax > 0
                                                    /\ MDef(c.m).options.AppliedMax
                                                          < Len(c.m.active)
                                                 THEN MDef(c.m).options.AppliedMax
                                                 ELSE Len(c.m.active))])]

\* Machine::Apply
MachineApply(c) ==
    LET options == MDef(c.m).options
        all == [i \in 1..Len(c.m.active) |-> i]
        applicable ==
            IF options.AppliedMax > 0 /\ options.AppliedMax < Len(c.m.active)
            THEN SubSeq(IF options.AppliedPriority # "none"
                        THEN SortSlots(c.m, options.AppliedPriority)
                        ELSE all, 1, options.AppliedMax)
            ELSE all
    IN  IF c.m.active = <<>> THEN c
        ELSE [c EXCEPT !.m.applicable = applicable,
                       !.log = Append(@, [k |-> "apply", mach |-> c.m.def,
                                          ids |-> [i \in 1..Len(applicable) |->
                                                      c.m.active[applicable[i]].id]])]

\* The states without a sub-machine a definition can start.
RECURSIVE LeafIds(_)
LeafIds(def) ==
    UNION { IF Len(def.states[i].sub) > 0
            THEN LeafIds(def.states[i].sub[1])
            ELSE {def.states[i].id} : i \in 1..Len(def.states) }

RECURSIVE AllIds(_)
AllIds(def) ==
    UNION { {def.states[i].id} \cup
            (IF Len(def.states[i].sub) > 0 THEN AllIds(def.states[i].sub[1]) ELSE {})
            : i \in 1..Len(def.states) }

\* The states Init of a machine of the definition can start, under the input.
RECURSIVE InitIds(_, _)
InitIds(def, in) ==
    LET ends == IF def.options.FullyActive /\ def.transitions = <<>>
                THEN {def.states[i].id : i \in 1..Len(def.states)}
                ELSE {def.transitions[i].end : i \in {j \in 1..Len(def.transitions) :
                                                        Eval(def.transitions[j], in)}}
    IN  ends \cup UNION { IF Len(GetState(def, e).sub) > 0
                          THEN InitIds(GetState(def, e).sub[1], in)
                          ELSE {} : e \in ends }

\* The states the done hook can be asked about during one Update of the
\* machine, under the input: the states without a sub-machine among the states
\* the machine holds and the states its global transitions can start now, and
\* the same in their sub-machines.
RECURSIVE Asked(_, _)
Asked(mach, in) ==
    LET def == MDef(mach)
        held == [i \in 1..(Len(mach.active) + Len(mach.queue)) |->
                    IF i <= Len(mach.active) THEN mach.active[i]
                    ELSE mach.queue[i - Len(mach.active)]]
        fresh == IF def.options.FullyActive THEN {}
                 ELSE {def.transitions[i].end :
                         i \in {j \in 1..Len(def.transitions) :
                                  /\ Eval(def.transitions[j], in)
                                  /\ (Len(held) = 0 \/ def.transitions[j].live)}}
    IN  UNION ( { IF HasSub(held[i]) THEN Asked(held[i].sub[1], in) ELSE {held[i].id}
                  : i \in 1..Len(held) }
                \cup
                { IF Len(GetState(def, e).sub) > 0
                  THEN InitIds(GetState(def, e).sub[1], in) \cap LeafIds(GetState(def, e).sub[1])
                  ELSE {e} : e \in fresh } )

\* The states Update of the machine can start, under the input: the ends of
\* its global transitions, the ends of the transitions of the states it holds
\* or starts by a global transition, what Init of a sub-machine of such an end
\* can start, every state of the sub-machine of a state a global transition
\* starts, and the same in every sub-machine it holds.
RECURSIVE Startable(_, _)
Startable(mach, in) ==
    LET def == MDef(mach)
        held == [i \in 1..(Len(mach.active) + Len(mach.queue)) |->
                    IF i <= Len(mach.active) THEN mach.active[i]
                    ELSE mach.queue[i - Len(mach.active)]]
        from(ts) == {ts[i].end : i \in {j \in 1..Len(ts) : Eval(ts[j], in)}}
        fresh == from(def.transitions)
        ends == fresh
                \cup UNION { from(GetState(def, held[i].id).transitions) : i \in 1..Len(held) }
                \cup UNION { from(GetState(def, e).transitions) : e \in fresh }
    IN  ends
        \cup UNION { IF Len(GetState(def, e).sub) > 0
                     THEN InitIds(GetState(def, e).sub[1], in)
                     ELSE {} : e \in ends }
        \cup UNION { IF Len(GetState(def, e).sub) > 0
                     THEN AllIds(GetState(def, e).sub[1])
                     ELSE {} : e \in fresh }
        \cup UNION { IF HasSub(held[i]) THEN Startable(held[i].sub[1], in) ELSE {}
                     : i \in 1..Len(held) }

\* The inputs the driver feeds.
Inputs == [speed : {0, 10}, jump : BOOLEAN]

\* The answers of the done hook and of the start hook during one call: the
\* done hook reports a set of the states it can be asked about done, the
\* start hook refuses at most one of the states the call can start.
DoneSets(mach, in) == SUBSET Asked(mach, in)
FailSets(ids) == {{}} \cup {{x} : x \in ids}

\* The speed the two-state schedule feeds on its n-th tick.
Schedule(n) == IF n <= LowTicks THEN 0 ELSE 10

(***************************************************************************)
(* Param (anim.h 121-156).                                                 *)
(***************************************************************************)
ParamTypes == {"unset", "set", "add", "multiply"}

\* Param(), Param(v), Param(v, t)
ParamUnset == [value |-> 0, type |-> "unset"]
ParamSet(v) == [value |-> v, type |-> "set"]
ParamOf(v, t) == [value |-> v, type |-> t]

\* Param::Joins, the loop from the i-th param on.
RECURSIVE JoinsFrom(_, _, _)
JoinsFrom(value, params, i) ==
    IF i > Len(params) THEN value
    ELSE JoinsFrom(CASE params[i].type = "set" -> params[i].value
                     [] params[i].type = "add" -> value + params[i].value
                     [] params[i].type = "multiply" -> value * params[i].value
                     [] params[i].type = "unset" -> value,
                   params, i + 1)

JoinsReversed(defaultValue, params) ==
    JoinsFrom(defaultValue, [i \in 1..Len(params) |-> params[Len(params) + 1 - i]], 1)

\* Param::Joins
Joins(defaultValue, params) == JoinsFrom(defaultValue, params, 1)

\* Param::Get
Get(param, defaultValue) == Joins(defaultValue, <<param>>)

\* Param::Join
Join(param, defaultValue, o) ==
    IF param.type = "unset" THEN o
    ELSE IF o.type = "unset" THEN param
    ELSE ParamSet(Joins(defaultValue, <<param, o>>))

(***************************************************************************)
(* AnimationOptions and AttributeAnimator (anim.h 158-298).  Times are     *)
(* whole seconds.  A delta, the position in an iteration, is the fraction  *)
(* [num, den] with den > 0.  No animation sets a path or an easing, so the *)
(* path is LinearPath and Ease is the identity.                            *)
(***************************************************************************)
NoOptions ==
    [delay |-> ParamUnset, duration |-> ParamUnset, sleep |-> ParamUnset,
     repeat |-> ParamUnset, scale |-> ParamUnset,
     clipStart |-> ParamUnset, clipEnd |-> ParamUnset]

\* AnimationOptions::Join
OptionsJoin(o, next) ==
    [delay |-> Join(o.delay, 0, next.delay),
     duration |-> Join(o.duration, 0, next.duration),
     sleep |-> Join(o.sleep, 0, next.sleep),
     repeat |-> Join(o.repeat, 1, next.repeat),
     clipStart |-> Join(o.clipStart, 0, next.clipStart),
     clipEnd |-> Join(o.clipEnd, 1, next.clipEnd),
     scale |-> Join(o.scale, 1, next.scale)]

Frac(n, d) == [num |-> n, den |-> d]

\* f == -1 and f != -1 on a delta
IsMinusOne(f) == f.num = -f.den

\* AttributeAnimator::ApplyOptions
ApplyOptions(a) ==
    [a EXCEPT !.delay = Get(a.options.delay, 0),
              !.duration = Get(a.options.duration, 0),
              !.sleep = Get(a.options.sleep, 0),
              !.repeat = Get(a.options.repeat, 1),
              !.clipStart = Get(a.options.clipStart, 0),
              !.clipEnd = Get(a.options.clipEnd, 1),
              !.scale = Get(a.options.scale, 1)]

\* AttributeAnimator(anim, attr, opts)
NewAttributeAnimator(anim, attr, opts) ==
    LET a == ApplyOptions(
                [animation |-> anim, points |-> attr.points, options |-> opts,
                 delay |-> 0, duration |-> 0, sleep |-> 0, repeat |-> 0,
                 clipStart |-> 0, clipEnd |-> 0, scale |-> 0,
                 time |-> 0, stopAt |-> -1, done |-> FALSE, apply |-> FALSE,
                 applyDelta |-> Frac(0, 1)])
    IN  [a EXCEPT !.done = (a.duration = 0 \/ a.repeat = 0)]

IterationTime(a) == a.duration + a.sleep
IntoAnimation(a, t) == t - a.delay

MaxLifetimeOneIteration(a) == IF a.repeat < 0 THEN -1 ELSE a.delay + a.duration

\* AttributeAnimator::MaxLifetime
MaxLifetime(a) ==
    IF a.repeat < 0 THEN -1 ELSE a.delay + a.duration + (a.repeat - 1) * IterationTime(a)

ActualLifetimeNatural(a) == MaxLifetime(a)

\* AttributeAnimator::ActualLifetime
ActualLifetime(a) == IF a.stopAt >= 0 THEN a.stopAt ELSE MaxLifetime(a)

\* fmod(x, y) for y > 0: the remainder has the sign of x.
Fmod(x, y) == IF x >= 0 THEN x % y ELSE -((-x) % y)

AnimationTime(a, t) == Fmod(IntoAnimation(a, t), IterationTime(a))
Delta(a, t) == Frac(AnimationTime(a, t), a.duration)

\* AttributeAnimator::ApplyDelta: -1 outside [0, 1], else
\* Lerp(clipStart, clipEnd, d) = clipStart + (clipEnd - clipStart) * d
ApplyDelta(a, t) ==
    LET d == Delta(a, t)
    IN  IF d.num < 0 \/ d.num > d.den
        THEN Frac(-1, 1)
        ELSE Frac(a.clipStart * d.den + (a.clipEnd - a.clipStart) * d.num, d.den)

\* AttributeAnimator::Update
AnimatorUpdate(a, dt) ==
    IF a.done THEN a
    ELSE
    LET next == a.time + dt
        nextApplyDelta == ApplyDelta(a, next)
        end == ActualLifetime(a)
    IN  [a EXCEPT !.time = next,
                  !.apply = ~IsMinusOne(nextApplyDelta) \/ ~IsMinusOne(a.applyDelta),
                  !.applyDelta = IF ~IsMinusOne(nextApplyDelta) THEN nextApplyDelta
                                 ELSE Frac(1, 1),
                  !.done = (end # -1 /\ next >= end)]

\* AttributeAnimator::StopIn
AnimatorStopIn(a, dt) == [a EXCEPT !.stopAt = a.time + dt]

IsStoppingAlways(a) == TRUE

\* AttributeAnimator::IsStopping
IsStopping(a) == a.stopAt # -1

\* LinearPath from the i-th point on: the value between the first pair of
\* points the time is before; out is left alone when the time is before none.
\* The data of the points make the division exact.
RECURSIVE LinearPathFrom(_, _, _, _)
LinearPathFrom(points, time, out, i) ==
    IF i > Len(points) THEN out
    ELSE IF time.num < points[i].time * time.den
         THEN LET prev == points[i-1]
                  curr == points[i]
              IN  prev.data + ((curr.data - prev.data) * (time.num - prev.time * time.den))
                                  \div (time.den * (curr.time - prev.time))
         ELSE LinearPathFrom(points, time, out, i + 1)

LinearPath(points, time, out) == LinearPathFrom(points, time, out, 2)

(***************************************************************************)
(* Attribute, AttributeSet and Animator (anim.h 299-572), for an animator  *)
(* with one attribute, whose value has been set.  The set is <<>> while    *)
(* it has no entry for the attribute and <<attribute>> once it has.        *)
(***************************************************************************)
\* Attribute{}
NewAttribute == [animators |-> <<>>, frame |-> 0, lastUpdatedFrame |-> 0]

WasUpdatedAlways(attr) == TRUE

\* Attribute::WasUpdated, and the same test at the end of Attribute::Update
WasUpdated(attr) == attr.lastUpdatedFrame = attr.frame

\* Attribute::Update, the loop from the i-th animator on.  c holds the
\* attribute, temp1, temp2 and the log.  erase(animator) leaves the iterator
\* on the slot of the erased animator, where the next animator now is.
RECURSIVE AttributeUpdateFrom(_, _, _)
AttributeUpdateFrom(c, i, dt) ==
    IF i > Len(c.attr.animators) THEN c
    ELSE
    LET before == c.attr.animators[i]
        a == AnimatorUpdate(before, dt)
        applied == a.apply /\ a.scale > 0
        temp1 == IF applied THEN LinearPath(a.points, a.applyDelta, c.temp1) ELSE c.temp1
        temp2 == IF applied THEN c.temp2 + temp1 * a.scale ELSE c.temp2
        animators == IF a.done THEN RemoveAt(c.attr.animators, i)
                     ELSE [c.attr.animators EXCEPT ![i] = a]
    IN  AttributeUpdateFrom(
            [attr |-> [c.attr EXCEPT !.animators = animators,
                                     !.lastUpdatedFrame = IF applied THEN c.attr.frame ELSE @],
             temp1 |-> temp1,
             temp2 |-> temp2,
             log |-> Append(c.log, [k |-> "animator", before |-> before, a |-> a,
                                    applied |-> applied, scratch |-> c.temp1,
                                    out |-> temp1])],
            IF a.done THEN i ELSE i + 1, dt)

\* Attribute::Update: the attribute and the value afterwards, and the log.
AttributeUpdate(attr, dt, value) ==
    LET c == AttributeUpdateFrom(
                [attr |-> [attr EXCEPT !.frame = @ + 1], temp1 |-> 0, temp2 |-> 0,
                 log |-> <<>>], 1, dt)
    IN  [attr |-> c.attr,
         value |-> IF WasUpdated(c.attr) THEN c.temp2 ELSE value,
         log |-> c.log]

\* Attribute::ForAnimations: the slots of the animators found.
ForAnimations(attr, animations) ==
    {i \in 1..Len(attr.animators) :
        ~attr.animators[i].done /\ attr.animators[i].animation \in animations}

\* Attribute::StopIn
AttributeStopIn(attr, animation, dt) ==
    [attr EXCEPT !.animators =
        [i \in 1..Len(attr.animators) |->
            IF ~attr.animators[i].done /\ attr.animators[i].animation = animation
            THEN AnimatorStopIn(attr.animators[i], dt)
            ELSE attr.animators[i]]]

\* AttributeSet(requests), from the i-th request on; each animation has the
\* one attribute.
RECURSIVE AttributeSetFrom(_, _, _)
AttributeSetFrom(set, requests, i) ==
    IF i > Len(requests) THEN set
    ELSE
    LET anim == requests[i].anim
        animAttr == anim.attributes[1]
        resolvedOptions == OptionsJoin(OptionsJoin(anim.options, animAttr.options),
                                       requests[i].options)
        existing == IF set = <<>> THEN NewAttribute ELSE set[1]
    IN  AttributeSetFrom(
            <<[existing EXCEPT !.animators =
                  Append(@, NewAttributeAnimator(anim.name, animAttr, resolvedOptions))]>>,
            requests, i + 1)

AttributeSetOf(requests) == AttributeSetFrom(<<>>, requests, 1)

MinDelayFirst(minDelay, nextUp, i) == minDelay

\* The least delay of the animators of a list.
RECURSIVE MinDelayFrom(_, _, _)
MinDelayFrom(minDelay, nextUp, i) ==
    IF i > Len(nextUp) THEN minDelay
    ELSE MinDelayFrom(IF nextUp[i].delay < minDelay THEN nextUp[i].delay ELSE minDelay,
                      nextUp, i + 1)

\* AttributeSet::Transition
SetTransition(set, attrs, outro) ==
    LET incoming == attrs[1]
        merged ==
            IF attrs = <<>> \/ incoming.animators = <<>> THEN set
            ELSE IF set = <<>> \/ set[1].animators = <<>> THEN <<incoming>>
            ELSE
            LET existing == set[1]
                forOutro == ForAnimations(existing, outro)
                minDelay == MinDelayFrom(incoming.animators[1].delay, incoming.animators, 2)
                stopped == [i \in 1..Len(existing.animators) |->
                               IF i \in forOutro
                               THEN AnimatorStopIn(existing.animators[i], minDelay)
                               ELSE existing.animators[i]]
            IN  <<[existing EXCEPT !.animators = stopped \o incoming.animators]>>
    IN  IF merged = <<>> THEN merged
        ELSE <<[merged[1] EXCEPT !.animators =
                  [i \in 1..Len(merged[1].animators) |->
                      IF i \in ForAnimations(merged[1], outro)
                            /\ ~IsStopping(merged[1].animators[i])
                      THEN AnimatorStopIn(merged[1].animators[i], 0)
                      ELSE merged[1].animators[i]]]>>

\* Animator::Transition
AnimatorTransition(set, requests, outro) ==
    SetTransition(set, AttributeSetOf(requests), outro)

(***************************************************************************)
(* The driver of the root machine.                                         *)
(***************************************************************************)
NoBuild == [op |-> "none", thrown |-> "none", t |-> TransitionAny("")]

BuildIdle ==
    /\ bdef = NewDefinition("built", DefaultOptions)
    /\ bres = NoBuild

MachineIdle ==
    /\ cfg = "two"
    /\ m = NewMachine(DefOf("two"))
    /\ input = [speed |-> 0, jump |-> FALSE]
    /\ log = <<>>
    /\ ticks = Off

ParamIdle ==
    /\ pdefault = 0
    /\ pparams = <<>>
    /\ pvalue = <<>>

AnimIdle ==
    /\ attributes = <<>>
    /\ values = 0
    /\ alog = <<>>

\* Animator{}: the thresholds value-initialized, nothing applied.
NoBlend ==
    [minTotalScale |-> 0, maxTotalScale |-> 0, minEffectiveScale |-> 0,
     active |-> <<>>, total |-> 0, pushed |-> <<>>]

\* Animator{}: no attribute in the set, no value.
NoPuppet == [attributes |-> [k \in {"P", "Q"} |-> <<>>],
             values |-> [k \in {"P", "Q"} |-> <<>>],
             supported |-> {"P", "Q"},
             outro |-> {},
             fault |-> FALSE]

\* No condition built.
NoCombined == [op |-> "none", conds |-> <<>>, res |-> <<>>]

\* Area(resizeBuffer) with resizeBuffer 0: no translation, m_next 0.
NewArea == [tos |-> <<>>, next |-> 0]

\* DenseMap(): no area, an empty local area, no values.  set is what the
\* user of the map has set and not removed: <<v>> for an identifier set to v.
NoDense ==
    [local |-> NewArea, values |-> <<>>, set |-> [u \in Uids |-> <<>>], ops |-> 0,
     fault |-> FALSE]

\* SmallSet(): no identifiers, no Remove running.
NoSmall == [ids |-> <<>>, pc |-> "idle", itr |-> 0, id |-> 0, before |-> <<>>]

IdIdle ==
    /\ dense = NoDense
    /\ small = NoSmall

ExtraIdle ==
    /\ blend = NoBlend
    /\ puppet = NoPuppet
    /\ combined = NoCombined
    /\ IdIdle

\* Machine(def, subject): no active and no queued state; the input is the
\* definition's initial input.
Init ==
    /\ cfg \in Cfgs
    /\ m = NewMachine(DefOf(cfg))
    /\ input \in Inputs
    /\ log = <<>>
    /\ last = "new"
    /\ ticks = Off
    /\ BuildIdle
    /\ ParamIdle
    /\ AnimIdle
    /\ ExtraIdle

\* machine.Init(update)
DoInit ==
    \E fail \in FailSets(InitIds(MDef(m), input)) :
        \E c \in {MachineInit(Ctx(m, <<>>), [input |-> input, done |-> {}, fail |-> fail])} :
            /\ m' = c.m
            /\ log' = c.log
            /\ last' = "Init"
            /\ ticks' = IF cfg = "two" /\ m.active = <<>> /\ m.queue = <<>> /\ fail = {}
                        THEN <<0>>
                        ELSE Off
            /\ UNCHANGED <<cfg, input, buildVars, paramVars, animVars, extraVars>>

\* The driver sets the input, then machine.Update(update)
DoUpdate ==
    \E in \in Inputs : \E done \in DoneSets(m, in) :
      \E fail \in FailSets(Startable(m, in)) :
        \E c \in {MachineUpdate(Ctx(m, <<>>), [input |-> in, done |-> done, fail |-> fail])} :
            /\ input' = in
            /\ m' = c.m
            /\ log' = c.log
            /\ last' = "Update"
            /\ ticks' = IF /\ ticks # Off
                           /\ ticks[1] < ScheduleTicks
                           /\ in.speed = Schedule(ticks[1] + 1)
                           /\ done = {}
                           /\ fail = {}
                        THEN <<ticks[1] + 1>>
                        ELSE Off
            /\ UNCHANGED <<cfg, buildVars, paramVars, animVars, extraVars>>

\* machine.Apply(update)
DoApply ==
    \E c \in {MachineApply(Ctx(m, <<>>))} :
        /\ m' = c.m
        /\ log' = c.log
        /\ last' = "Apply"
        /\ UNCHANGED <<cfg, input, ticks, buildVars, paramVars, animVars, extraVars>>

Next == DoInit \/ DoUpdate \/ DoApply

Spec == Init /\ [][Next]_vars

\* The same driver on the machines with ActiveMax set.
InitCap ==
    /\ cfg \in CapCfgs
    /\ m = NewMachine(DefOf(cfg))
    /\ input \in Inputs
    /\ log = <<>>
    /\ last = "new"
    /\ ticks = Off
    /\ BuildIdle
    /\ ParamIdle
    /\ AnimIdle
    /\ ExtraIdle

SpecCap == InitCap /\ [][Next]_vars

(***************************************************************************)
(* The builder of a machine definition: AddState and AddTransition in any  *)
(* order on a definition that starts with no state and no transition.      *)
(***************************************************************************)
\* The states the builder adds and the transitions it tries to add: their
\* ends and starts name states it adds and a state, z, it never adds.
BuildIds == {"a", "b"}
BuildTransitions ==
    {TransitionAny(e) : e \in {"a", "b", "z"}}
    \cup {TransitionFrom(st, e, "fast", TRUE) : st \in {"a", "z"}, e \in {"a", "b", "z"}}

\* The transitions a definition holds, on its global list and on its states.
RECURSIVE StateTransitionCount(_, _)
StateTransitionCount(def, i) ==
    IF i > Len(def.states) THEN 0
    ELSE Len(def.states[i].transitions) + StateTransitionCount(def, i + 1)

TransitionCount(def) == Len(def.transitions) + StateTransitionCount(def, 1)

InitBuild ==
    /\ MachineIdle
    /\ last = "new"
    /\ BuildIdle
    /\ ParamIdle
    /\ AnimIdle
    /\ ExtraIdle

\* def.AddState(Definition(id, effect))
BAddState ==
    \E id \in BuildIds :
        /\ Len(bdef.states) < MaxStates
        /\ bdef' = AddState(bdef, StateFixed(id, 10))
        /\ bres' = [op |-> "AddState", thrown |-> "none", t |-> NoBuild.t]
        /\ last' = "AddState"
        /\ UNCHANGED <<machineVars, paramVars, animVars, extraVars>>

\* def.AddTransition(t), the exception caught by the builder
BAddTransition ==
    \E t \in BuildTransitions :
        \E r \in {AddTransition(bdef, t)} :
            /\ TransitionCount(bdef) < MaxTrans
            /\ bdef' = r.def
            /\ bres' = [op |-> "AddTransition", thrown |-> r.thrown, t |-> t]
            /\ last' = "AddTransition"
            /\ UNCHANGED <<machineVars, paramVars, animVars, extraVars>>

NextBuild == BAddState \/ BAddTransition

SpecBuild == InitBuild /\ [][NextBuild]_vars

(***************************************************************************)
(* Param::Joins on a default value and a list of params.                   *)
(***************************************************************************)
ParamValues == {2, 3}
ParamDefaults == {0, 1}
Params == {ParamUnset} \cup {ParamOf(v, t) : v \in ParamValues, t \in ParamTypes \ {"unset"}}

\* The sequences of at most n params.
RECURSIVE ParamLists(_)
ParamLists(n) ==
    IF n = 0 THEN {<<>>}
    ELSE ParamLists(n - 1)
         \cup {Append(ps, q) : ps \in {l \in ParamLists(n - 1) : Len(l) = n - 1}, q \in Params}

InitParam ==
    /\ MachineIdle
    /\ last = "new"
    /\ BuildIdle
    /\ pdefault \in ParamDefaults
    /\ pparams \in ParamLists(MaxParams)
    /\ pvalue = <<>>
    /\ AnimIdle
    /\ ExtraIdle

\* Param<T>::Joins(pdefault, pparams)
PJoins ==
    /\ pvalue = <<>>
    /\ pvalue' = <<Joins(pdefault, pparams)>>
    /\ last' = "Joins"
    /\ UNCHANGED <<machineVars, buildVars, animVars, pdefault, pparams, extraVars>>

NextParam == PJoins

SpecParam == InitParam /\ [][NextParam]_vars

(***************************************************************************)
(* The animator of one attribute: Transition, Update and StopIn in any     *)
(* order.                                                                  *)
(***************************************************************************)
\* The points of every animation: from 0 at time 0 to 4 at time 1.
Ramp == <<[time |-> 0, data |-> 0], [time |-> 1, data |-> 4]>>

\* Animation{name, options, {AnimationAttribute{attribute, options, points}}}
AnimationOf(name, options) ==
    [name |-> name, options |-> options,
     attributes |-> <<[attribute |-> "P", options |-> NoOptions, points |-> Ramp]>>]

\* The animations played: two iterations of one second; one iteration of two
\* seconds after a delay; iterations for ever, a second of sleep between
\* them; two iterations at scale 0; an animation with no duration.
Animations ==
    { AnimationOf("twice", [NoOptions EXCEPT !.duration = ParamSet(1), !.repeat = ParamSet(2)]),
      AnimationOf("late", [NoOptions EXCEPT !.delay = ParamSet(1), !.duration = ParamSet(2)]),
      AnimationOf("loop", [NoOptions EXCEPT !.duration = ParamSet(1), !.sleep = ParamSet(1),
                                            !.repeat = ParamSet(-1)]),
      AnimationOf("mute", [NoOptions EXCEPT !.duration = ParamSet(1), !.sleep = ParamSet(1),
                                            !.repeat = ParamSet(2), !.scale = ParamSet(0)]),
      AnimationOf("none", NoOptions) }

\* The request lists of one Transition: one animation, no further options.
Requests == {<<[anim |-> x, options |-> NoOptions]>> : x \in Animations}

\* The animations the attribute is animating.
Animating(set) ==
    IF set = <<>> THEN {}
    ELSE {set[1].animators[i].animation : i \in 1..Len(set[1].animators)}

\* The outro sets of one Transition: none of the animations, or one of those
\* the attribute is animating or the requests name.
Outros(set, requests) ==
    {{}} \cup {{n} : n \in Animating(set) \cup {requests[i].anim.name : i \in 1..Len(requests)}}

Deltas == {1, 2}

\* Animator(), then animator.Set(attribute, 7): no animation played.
InitAnim ==
    /\ MachineIdle
    /\ last = "new"
    /\ BuildIdle
    /\ ParamIdle
    /\ attributes = <<>>
    /\ values = 7
    /\ alog = <<>>
    /\ ExtraIdle

\* animator.Transition(requests, options, outro)
AnTransition ==
    \E requests \in Requests :
        \E outro \in Outros(attributes, requests) :
            /\ Len(requests) + (IF attributes = <<>> THEN 0 ELSE Len(attributes[1].animators))
                  <= MaxAnimators
            /\ attributes' = AnimatorTransition(attributes, requests, outro)
            /\ alog' = <<>>
            /\ last' = "Transition"
            /\ UNCHANGED <<machineVars, buildVars, paramVars, values, extraVars>>

\* animator.Update(dt): AttributeSet::Update updates the attribute the set
\* has an entry for.
AnUpdate ==
    \E dt \in Deltas :
        /\ attributes # <<>> => attributes[1].frame < MaxFrames
        /\ \E r \in {IF attributes = <<>>
                     THEN [attr |-> NewAttribute, value |-> values, log |-> <<>>]
                     ELSE AttributeUpdate(attributes[1], dt, values)} :
              /\ attributes' = IF attributes = <<>> THEN attributes ELSE <<r.attr>>
              /\ values' = r.value
              /\ alog' = r.log
        /\ last' = "AUpdate"
        /\ UNCHANGED <<machineVars, buildVars, paramVars, extraVars>>

\* animator.StopIn(animation, dt)
AnStopIn ==
    \E animation \in Animating(attributes), dt \in {1} :
        /\ attributes' = <<AttributeStopIn(attributes[1], animation, dt)>>
        /\ alog' = <<>>
        /\ last' = "StopIn"
        /\ UNCHANGED <<machineVars, buildVars, paramVars, values, extraVars>>

NextAnim == AnTransition \/ AnUpdate \/ AnStopIn

SpecAnim == InitAnim /\ [][NextAnim]_vars

(***************************************************************************)
(* The same animator playing clips that end, rest and repeat: Transition,  *)
(* Update and StopIn in any order.                                         *)
(***************************************************************************)
\* The animations played: iterations for ever, a second of sleep between
\* them; two iterations with three seconds of sleep between them; one
\* iteration of two seconds.
Clips ==
    { AnimationOf("loop", [NoOptions EXCEPT !.duration = ParamSet(1), !.sleep = ParamSet(1),
                                            !.repeat = ParamSet(-1)]),
      AnimationOf("rest", [NoOptions EXCEPT !.duration = ParamSet(1), !.sleep = ParamSet(3),
                                            !.repeat = ParamSet(2)]),
      AnimationOf("once", [NoOptions EXCEPT !.duration = ParamSet(2)]) }

\* The request lists of one Transition: one clip, no further options.
ClipRequests == {<<[anim |-> x, options |-> NoOptions]>> : x \in Clips}

\* The times StopIn is asked to stop an animation in.
StopDelays == {1, 2}

\* animator.Transition(requests, options, outro)
ClTransition ==
    \E requests \in ClipRequests :
        \E outro \in Outros(attributes, requests) :
            /\ Len(requests) + (IF attributes = <<>> THEN 0 ELSE Len(attributes[1].animators))
                  <= MaxAnimators
            /\ attributes' = AnimatorTransition(attributes, requests, outro)
            /\ alog' = <<>>
            /\ last' = "Transition"
            /\ UNCHANGED <<machineVars, buildVars, paramVars, values, extraVars>>

\* animator.StopIn(animation, dt)
ClStopIn ==
    \E animation \in Animating(attributes), dt \in StopDelays :
        /\ attributes' = <<AttributeStopIn(attributes[1], animation, dt)>>
        /\ alog' = <<>>
        /\ last' = "StopIn"
        /\ UNCHANGED <<machineVars, buildVars, paramVars, values, extraVars>>

NextClip == ClTransition \/ AnUpdate \/ ClStopIn

SpecClip == InitAnim /\ [][NextClip]_vars

(***************************************************************************)
(* The binding of the machine to the animator (anim.h 573-690): the Apply  *)
(* hook on the list of active states Machine::Apply hands it.  The id of a *)
(* state without a sub-machine is the name of its animation, and its       *)
(* weight is the options whose scale is its effect.                        *)
(***************************************************************************)
\* Active::Iterate: the states without a sub-machine under a state, in order.
RECURSIVE Iterate(_)
RECURSIVE IterateAll(_, _)
IterateAll(active, i) ==
    IF i > Len(active) THEN <<>>
    ELSE Iterate(active[i]) \o IterateAll(active, i + 1)

Iterate(a) == IF HasSub(a) THEN IterateAll(a.sub[1].active, 1) ELSE <<a>>

\* state.GetWeight()
GetWeight(a) == [NoOptions EXCEPT !.scale = ParamSet(a.effect)]

CountedAlways(subject, scale) == scale

\* anim::Apply, the first walk: what a state adds to totalEffectiveScale.
Counted(subject, scale) == IF scale > subject.minEffectiveScale THEN scale ELSE 0

\* anim::Apply, the first walk: totalEffectiveScale of the states from the
\* i-th on.
RECURSIVE TotalEffectiveScale(_, _, _)
TotalEffectiveScale(subject, leaves, i) ==
    IF i > Len(leaves) THEN 0
    ELSE Counted(subject, Get(GetWeight(leaves[i]).scale, 1))
         + TotalEffectiveScale(subject, leaves, i + 1)

\* anim::Apply, scaleModifier as the fraction [num, den]
ScaleModifier(subject, total) ==
    IF total = 0 THEN Frac(1, 1)
    ELSE IF total < subject.minTotalScale THEN Frac(subject.minTotalScale, total)
    ELSE IF total > subject.maxTotalScale /\ subject.maxTotalScale # 0
         THEN Frac(subject.maxTotalScale, total)
         ELSE Frac(1, 1)

\* anim::Apply, the second walk: scale * scaleModifier of one state.  The
\* scales and the thresholds make the division exact.
PushedScale(subject, scale, modifier) ==
    ((IF scale <= subject.minEffectiveScale THEN 0 ELSE scale) * modifier.num)
        \div modifier.den

\* AttributeAnimator::AddOptions
AddOptions(a, additional) == ApplyOptions([a EXCEPT !.options = OptionsJoin(@, additional)])

\* Attribute::ApplyOptions, the walk back from the i-th animator: the last
\* animator of the animation that is not done gets the options.
RECURSIVE AttributeApplyOptionsFrom(_, _, _, _)
AttributeApplyOptionsFrom(attr, animation, weight, i) ==
    IF i < 1 THEN attr
    ELSE IF ~attr.animators[i].done /\ attr.animators[i].animation = animation
         THEN [attr EXCEPT !.animators[i] = AddOptions(@, weight)]
         ELSE AttributeApplyOptionsFrom(attr, animation, weight, i - 1)

\* AttributeSet::ApplyOptions and Animator::ApplyOptions
SetApplyOptions(set, animation, weight) ==
    IF set = <<>> THEN set
    ELSE <<AttributeApplyOptionsFrom(set[1], animation, weight, Len(set[1].animators))>>

\* anim::Apply, the second walk from the i-th state on: c holds the
\* attributes and what was pushed.
RECURSIVE ApplyWeightsFrom(_, _, _, _, _)
ApplyWeightsFrom(c, subject, leaves, modifier, i) ==
    IF i > Len(leaves) THEN c
    ELSE ApplyWeightsFrom(
            [set |-> SetApplyOptions(c.set, leaves[i].id,
                        [GetWeight(leaves[i]) EXCEPT !.scale =
                            ParamSet(PushedScale(subject,
                                                 Get(GetWeight(leaves[i]).scale, 1),
                                                 modifier))]),
             pushed |-> Append(c.pushed,
                          [animation |-> leaves[i].id,
                           scale |-> Get(GetWeight(leaves[i]).scale, 1),
                           pushed |-> PushedScale(subject,
                                                  Get(GetWeight(leaves[i]).scale, 1),
                                                  modifier)])],
            subject, leaves, modifier, i + 1)

\* anim::Apply up to subject.Update: the attributes with the weights pushed,
\* and what was pushed.
ApplyWeights(subject, set, active) ==
    ApplyWeightsFrom([set |-> set, pushed |-> <<>>], subject, IterateAll(active, 1),
                     ScaleModifier(subject,
                                   TotalEffectiveScale(subject, IterateAll(active, 1), 1)),
                     1)

(***************************************************************************)
(* The Apply hook driven on an animator of one attribute: the driver sets  *)
(* the thresholds once, plays animations, and applies lists of active      *)
(* states.                                                                 *)
(***************************************************************************)
\* minTotalScale and maxTotalScale as the driver sets them: both left at 0;
\* a window; a minimum alone; a minimum above the maximum.
TotalScales ==
    { [min |-> 0, max |-> 0], [min |-> 20, max |-> 36],
      [min |-> 60, max |-> 0], [min |-> 60, max |-> 12] }
EffectiveScales == {0, 12}

\* The weights of the active states: the scale of their effect.
LeafScales == {0, 12, 24}

\* The animations the active states name.
BlendAnimations ==
    { AnimationOf("walk", [NoOptions EXCEPT !.duration = ParamSet(2), !.repeat = ParamSet(2)]),
      AnimationOf("run", [NoOptions EXCEPT !.duration = ParamSet(1), !.sleep = ParamSet(1),
                                           !.repeat = ParamSet(-1)]) }

Leaf(id, scale) == [id |-> id, effect |-> scale, sub |-> <<>>]
Parent(id, active) ==
    [id |-> id, effect |-> 0,
     sub |-> <<[def |-> id, active |-> active, queue |-> <<>>, applicable |-> <<>>]>>]

\* The lists Machine::Apply hands the hook: never empty, at most two states
\* without a sub-machine under them.
ActiveLists ==
    {<<Leaf("walk", s)>> : s \in LeafScales}
    \cup {<<Leaf("walk", s), Leaf("run", t)>> : s \in LeafScales, t \in LeafScales}
    \cup {<<Parent("move", <<Leaf("walk", s), Leaf("run", t)>>)>> :
             s \in LeafScales, t \in LeafScales}
    \cup {<<Leaf("walk", s), Parent("air", <<Leaf("run", t)>>)>> :
             s \in LeafScales, t \in LeafScales}
    \cup {<<Parent("move", <<>>)>>}

\* Animator{}, animator.Set(attribute, 7), then the thresholds set.
InitBlend ==
    /\ MachineIdle
    /\ last = "new"
    /\ BuildIdle
    /\ ParamIdle
    /\ attributes = <<>>
    /\ values = 7
    /\ alog = <<>>
    /\ \E ts \in TotalScales, e \in EffectiveScales :
          blend = [NoBlend EXCEPT !.minTotalScale = ts.min, !.maxTotalScale = ts.max,
                                  !.minEffectiveScale = e]
    /\ puppet = NoPuppet
    /\ combined = NoCombined
    /\ IdIdle

\* animator.Play(animation)
BlPlay ==
    \E x \in BlendAnimations :
        /\ (IF attributes = <<>> THEN 0 ELSE Len(attributes[1].animators)) < MaxAnimators
        /\ attributes' = AnimatorTransition(attributes,
                                            <<[anim |-> x, options |-> NoOptions]>>, {})
        /\ alog' = <<>>
        /\ blend' = [blend EXCEPT !.active = <<>>, !.total = 0, !.pushed = <<>>]
        /\ last' = "Play"
        /\ UNCHANGED <<machineVars, buildVars, paramVars, values, puppet, combined, idVars>>

\* anim::Apply(subject, active, update) with a DeltaTime of one second
BlApply ==
    \E active \in ActiveLists :
        \E c \in {ApplyWeights(blend, attributes, active)} :
            /\ attributes # <<>> => attributes[1].frame < MaxApplies
            /\ \E r \in {IF c.set = <<>>
                         THEN [attr |-> NewAttribute, value |-> values, log |-> <<>>]
                         ELSE AttributeUpdate(c.set[1], 1, values)} :
                  /\ attributes' = IF c.set = <<>> THEN c.set ELSE <<r.attr>>
                  /\ values' = r.value
                  /\ alog' = r.log
            /\ blend' = [blend EXCEPT
                            !.active = active,
                            !.total = TotalEffectiveScale(blend, IterateAll(active, 1), 1),
                            !.pushed = c.pushed]
            /\ last' = "Apply"
            /\ UNCHANGED <<machineVars, buildVars, paramVars, puppet, combined, idVars>>

NextBlend == BlPlay \/ BlApply

SpecBlend == InitBlend /\ [][NextBlend]_vars

(***************************************************************************)
(* The animator of two attributes, P and Q.  Its AttributeSet maps each    *)
(* attribute to <<>>, no entry, or to <<attribute>>; its values map each   *)
(* attribute to <<>>, no value, or to <<value>>.  The loops of             *)
(* AttributeSet(requests), Transition and Update go through the            *)
(* attributes one by one and nothing is carried from one attribute to the  *)
(* next, so each is the operation on one attribute, on every attribute.    *)
(***************************************************************************)
AttributeIds == {"P", "Q"}

\* AttributeSet(requests), the inner loop from the j-th AnimationAttribute of
\* a request on: the animators emplaced on attribute k.
RECURSIVE RequestAnimators(_, _, _)
RequestAnimators(request, k, j) ==
    IF j > Len(request.anim.attributes) THEN <<>>
    ELSE (IF request.anim.attributes[j].attribute = k
          THEN <<NewAttributeAnimator(
                    request.anim.name, request.anim.attributes[j],
                    OptionsJoin(OptionsJoin(request.anim.options,
                                            request.anim.attributes[j].options),
                                request.options))>>
          ELSE <<>>)
         \o RequestAnimators(request, k, j + 1)

\* AttributeSet(requests), the outer loop from the i-th request on.
RECURSIVE IncomingAnimators(_, _, _)
IncomingAnimators(requests, k, i) ==
    IF i > Len(requests) THEN <<>>
    ELSE RequestAnimators(requests[i], k, 1) \o IncomingAnimators(requests, k, i + 1)

\* AttributeSet(requests): its entry for attribute k.
AttributeSetOn(requests, k) ==
    IF IncomingAnimators(requests, k, 1) = <<>> THEN <<>>
    ELSE <<[NewAttribute EXCEPT !.animators = IncomingAnimators(requests, k, 1)]>>

\* Animator::Transition on every attribute
TransitionAll(set, requests, outro) ==
    [k \in AttributeIds |-> SetTransition(set[k], AttributeSetOn(requests, k), outro)]

\* What a call through the null calculator does: the behaviour is undefined.
\* The program faults, or the calls return and what they return is any value.
Undefined == {[fault |-> TRUE, value |-> 0], [fault |-> FALSE, value |-> 9]}

\* Attribute::Update when calc::For(value.GetType()) is null and the calls
\* through it return: temp2 is whatever they returned.
AttributeUpdateNoCalculator(attr, dt, value, ub) ==
    [AttributeUpdate(attr, dt, value) EXCEPT
        !.value = IF WasUpdated(AttributeUpdate(attr, dt, value).attr) THEN ub.value ELSE value]

\* The attributes AttributeSet::Update updates: those the set has an entry
\* for and that have a value.
Valued(set, vals) == {k \in AttributeIds : set[k] # <<>> /\ vals[k] # <<>>}

\* AttributeSet::Update
UpdateAll(set, vals, dt, supported, ub) ==
    [k \in AttributeIds |->
        IF k \in Valued(set, vals)
        THEN IF k \in supported
             THEN AttributeUpdate(set[k][1], dt, vals[k][1])
             ELSE AttributeUpdateNoCalculator(set[k][1], dt, vals[k][1], ub)
        ELSE [attr |-> NewAttribute, value |-> 0, log |-> <<>>]]

\* An animation of one second on each of the attributes named, started after
\* a delay.
AnimationOn(name, delay, duration, ids) ==
    [name |-> name,
     options |-> [NoOptions EXCEPT !.delay = ParamSet(delay), !.duration = ParamSet(duration)],
     attributes |-> [i \in 1..Len(ids) |->
                        [attribute |-> ids[i], options |-> NoOptions, points |-> Ramp]]]

\* The request lists of one Transition: an animation on both attributes; one
\* on Q alone, late; two on P, the later first.
PuppetRequests ==
    { <<[anim |-> AnimationOn("idle", 0, 3, <<"P", "Q">>), options |-> NoOptions]>>,
      <<[anim |-> AnimationOn("sway", 2, 1, <<"Q">>), options |-> NoOptions]>>,
      <<[anim |-> AnimationOn("lean", 2, 1, <<"P">>), options |-> NoOptions],
        [anim |-> AnimationOn("step", 1, 1, <<"P">>), options |-> NoOptions]>> }

\* The animations an attribute is animating.
PuppetAnimating(set) ==
    UNION {Animating(set[k]) : k \in AttributeIds}

\* The animators an attribute holds, whether the set has an entry for it.
AnimatorsOf(set, k) == IF set[k] = <<>> THEN <<>> ELSE set[k][1].animators

\* Animator{}, then animator.Set(attribute, 7) for P and Q, each a value of
\* a type a calculator has been registered for or not.
InitPuppet ==
    /\ MachineIdle
    /\ last = "new"
    /\ BuildIdle
    /\ ParamIdle
    /\ AnimIdle
    /\ blend = NoBlend
    /\ combined = NoCombined
    /\ IdIdle
    /\ \E supported \in {AttributeIds, {"Q"}} :
          puppet = [NoPuppet EXCEPT !.values = [k \in AttributeIds |-> <<7>>],
                                    !.supported = supported]

\* animator.Transition(requests, options, outro)
PuTransition ==
    \E requests \in PuppetRequests :
        \E outro \in {{}} \cup {{n} : n \in PuppetAnimating(puppet.attributes)} :
            /\ ~puppet.fault
            /\ Len(AnimatorsOf(puppet.attributes, "P")) + Len(IncomingAnimators(requests, "P", 1))
                  + Len(AnimatorsOf(puppet.attributes, "Q"))
                  + Len(IncomingAnimators(requests, "Q", 1)) <= MaxCrossfade
            /\ puppet' = [puppet EXCEPT
                             !.attributes = TransitionAll(@, requests, outro),
                             !.outro = outro]
            /\ last' = "PuTransition"
            /\ UNCHANGED <<machineVars, buildVars, paramVars, animVars, blend, combined, idVars>>

\* animator.Update(1)
PuUpdate ==
    \E ub \in Undefined :
      \E r \in {UpdateAll(puppet.attributes, puppet.values, 1, puppet.supported, ub)} :
        /\ ~puppet.fault
        /\ \A k \in AttributeIds :
              puppet.attributes[k] # <<>> => puppet.attributes[k][1].frame < MaxPuppetFrames
        /\ puppet' =
              IF ub.fault /\ ~(Valued(puppet.attributes, puppet.values) \subseteq puppet.supported)
              THEN [puppet EXCEPT !.fault = TRUE, !.outro = {}]
              ELSE [puppet EXCEPT
                       !.attributes = [k \in AttributeIds |->
                                          IF k \in Valued(puppet.attributes, puppet.values)
                                          THEN <<r[k].attr>> ELSE @[k]],
                       !.values = [k \in AttributeIds |->
                                      IF k \in Valued(puppet.attributes, puppet.values)
                                      THEN <<r[k].value>> ELSE @[k]],
                       !.outro = {}]
        /\ last' = "PuUpdate"
        /\ UNCHANGED <<machineVars, buildVars, paramVars, animVars, blend, combined, idVars>>

NextPuppet == PuTransition \/ PuUpdate

SpecPuppet == InitPuppet /\ [][NextPuppet]_vars

(***************************************************************************)
(* The combinators of conditions: a condition is built from a list of the  *)
(* user's conditions and called with an input.                             *)
(***************************************************************************)
\* The sequences of 1 to n of the user's conditions.
RECURSIVE CondLists(_)
CondLists(n) ==
    IF n = 1 THEN {<<c>> : c \in {"fast", "slow", "jump"}}
    ELSE CondLists(n - 1)
         \cup {Append(cs, c) : cs \in {l \in CondLists(n - 1) : Len(l) = n - 1},
                               c \in {"fast", "slow", "jump"}}

InitCond ==
    /\ cfg = "two"
    /\ m = NewMachine(DefOf("two"))
    /\ input \in Inputs
    /\ log = <<>>
    /\ ticks = Off
    /\ last = "new"
    /\ BuildIdle
    /\ ParamIdle
    /\ AnimIdle
    /\ blend = NoBlend
    /\ puppet = NoPuppet
    /\ IdIdle
    /\ \E cs \in CondLists(MaxConds) : combined = [NoCombined EXCEPT !.conds = cs]

\* And(c1, ..., cn)(input)
CoAnd ==
    /\ combined.op = "none"
    /\ combined' = [combined EXCEPT !.op = "And", !.res = <<And(combined.conds, 1, input)>>]
    /\ last' = "And"
    /\ UNCHANGED <<machineVars, buildVars, paramVars, animVars, blend, puppet, idVars>>

\* Or(c1, ..., cn)(input)
CoOr ==
    /\ combined.op = "none"
    /\ combined' = [combined EXCEPT !.op = "Or", !.res = <<Or(combined.conds, 1, input)>>]
    /\ last' = "Or"
    /\ UNCHANGED <<machineVars, buildVars, paramVars, animVars, blend, puppet, idVars>>

\* Not(c1, ..., cn)(input)
CoNot ==
    /\ combined.op = "none"
    /\ combined' = [combined EXCEPT !.op = "Not", !.res = <<Not(combined.conds, 1, input)>>]
    /\ last' = "Not"
    /\ UNCHANGED <<machineVars, buildVars, paramVars, animVars, blend, puppet, idVars>>

NextCond == CoAnd \/ CoOr \/ CoNot

SpecCond == InitCond /\ [][NextCond]_vars

(***************************************************************************)
(* id::Area (id.h 290-372) and id::DenseMap (id.h 516-638).                *)
(* m_tos is a sequence: m_tos[from] of the code is tos[from + 1].  The map *)
(* is a DenseMap8 built without an area, so that the unique id of an       *)
(* identifier is its area id and the local ids are uint8_t.                *)
(***************************************************************************)
\* m_tos.resize(nextSize) with m_resizeBuffer 0: new entries are 0.
Resized(tos, from) ==
    IF from >= Len(tos) THEN tos \o [i \in 1..(from + 1 - Len(tos)) |-> 0] ELSE tos

\* Area::Translate, the area afterwards.
Translated(area, from) ==
    IF Resized(area.tos, from)[from + 1] = 0
    THEN [tos |-> [Resized(area.tos, from) EXCEPT ![from + 1] = (area.next + 1) % LidMod],
          next |-> (area.next + 1) % LidMod]
    ELSE [tos |-> Resized(area.tos, from), next |-> area.next]

\* Area::Translate, the id returned.
Translate(area, from) == (Translated(area, from).tos[from + 1] - 1) % LidMod

\* Area::Peek
Peek(area, from) == IF from < Len(area.tos) THEN area.tos[from + 1] - 1 ELSE -1

\* Area::Remove with maintainOrder: every to above the removed one goes down.
Lowered(tos, removedTo) ==
    [i \in 1..Len(tos) |-> IF tos[i] > removedTo THEN (tos[i] - 1) % LidMod ELSE tos[i]]

\* Area::Remove without maintainOrder: the last entry equal to m_next, if
\* any, takes the removed to.
Swapped(tos, next, removedTo) ==
    IF \E i \in 1..Len(tos) : tos[i] = next
    THEN [tos EXCEPT ![CHOOSE i \in 1..Len(tos) :
                          /\ tos[i] = next
                          /\ \A j \in (i + 1)..Len(tos) : tos[j] # next] = removedTo]
    ELSE tos

\* Area::Remove, m_tos after m_next-- and m_tos[from] = 0.
AreaRemoveFrom(tos, next, removedTo, maintainOrder) ==
    IF removedTo = next THEN tos
    ELSE IF maintainOrder THEN Lowered(tos, removedTo)
         ELSE Swapped(tos, next, removedTo)

\* Area::Remove: the area afterwards and the id returned.
AreaRemove(area, from, maintainOrder) ==
    IF from >= Len(area.tos) \/ area.tos[from + 1] = 0
    THEN [area |-> area, removed |-> -1]
    ELSE [area |-> [tos |-> AreaRemoveFrom([area.tos EXCEPT ![from + 1] = 0],
                                           (area.next - 1) % LidMod,
                                           area.tos[from + 1], maintainOrder),
                    next |-> (area.next - 1) % LidMod],
          removed |-> area.tos[from + 1] - 1]

\* V(): the value the empty constructor makes.
Empty == 0

\* The values a user sets.
DenseValues == {1, 2}

\* DenseMap::Ptr: <<v>> for a pointer to v, <<>> for nullptr.
Ptr(map, uid) ==
    IF Peek(map.local, uid) < 0 \/ Peek(map.local, uid) >= Len(map.values)
    THEN <<>>
    ELSE <<map.values[Peek(map.local, uid) + 1]>>

\* DenseMap::Get
DenseGet(map, uid) == IF Ptr(map, uid) = <<>> THEN Empty ELSE Ptr(map, uid)[1]

\* DenseMap::Size
Size(map) == Len(map.values)

\* DenseMap::Take, m_values after emplace_back.
Taken(map, uid) ==
    IF Translate(map.local, uid) = Len(map.values)
    THEN Append(map.values, Empty)
    ELSE map.values

\* What a read or write outside a vector can do: stop the program, or go
\* unnoticed and leave the elements of the vector alone.
Outside == {"fault", "unnoticed"}

\* DenseMap::Take and the write through the reference it returns (wrote
\* says whether there is one): m_values[localID] is outside the vector when
\* localID is beyond its end.
DenseTake(map, uid, wrote, value, ub) ==
    IF Translate(map.local, uid) < Len(Taken(map, uid))
    THEN [map EXCEPT !.local = Translated(map.local, uid),
                     !.values = IF wrote
                                THEN [Taken(map, uid) EXCEPT ![Translate(map.local, uid) + 1]
                                                                 = value]
                                ELSE Taken(map, uid)]
    ELSE [map EXCEPT !.local = Translated(map.local, uid),
                     !.fault = (ub = "fault")]

\* m_values.erase(m_values.begin() + localID)
Erased(vals, localID) ==
    SubSeq(vals, 1, localID) \o SubSeq(vals, localID + 2, Len(vals))

\* m_values[localID] = std::move(m_values.back()); m_values.pop_back();
MovedBack(vals, localID) ==
    SubSeq([vals EXCEPT ![localID + 1] = vals[Len(vals)]], 1, Len(vals) - 1)

\* DenseMap::Remove after the local area gave localID: erase at or beyond
\* end(), back() of an empty vector and a write beyond the end are outside
\* the vector.
DenseRemoved(map, area, localID, maintainOrder, ub) ==
    IF localID < Len(map.values)
    THEN [map EXCEPT !.local = area,
                     !.values = IF maintainOrder THEN Erased(@, localID)
                                ELSE MovedBack(@, localID)]
    ELSE [map EXCEPT !.local = area,
                     !.values = IF maintainOrder \/ @ = <<>> THEN @
                                ELSE SubSeq(@, 1, Len(@) - 1),
                     !.fault = (ub = "fault")]

\* DenseMap::Remove
DenseRemove(map, uid, maintainOrder, ub) ==
    IF AreaRemove(map.local, uid, maintainOrder).removed = -1
    THEN map
    ELSE DenseRemoved(map, AreaRemove(map.local, uid, maintainOrder).area,
                      AreaRemove(map.local, uid, maintainOrder).removed, maintainOrder, ub)

InitDense ==
    /\ cfg = "two"
    /\ m = NewMachine(DefOf(cfg))
    /\ input \in {[speed |-> 0, jump |-> FALSE]}
    /\ log = <<>>
    /\ last = "new"
    /\ ticks = Off
    /\ BuildIdle
    /\ ParamIdle
    /\ AnimIdle
    /\ blend = NoBlend
    /\ puppet = NoPuppet
    /\ combined = NoCombined
    /\ dense = NoDense
    /\ small = NoSmall

\* dm.Set(id, value), dm[id] = value
DmSet ==
    \E uid \in Uids, value \in DenseValues, ub \in Outside :
        /\ ~dense.fault
        /\ dense.ops < MaxDenseOps
        /\ dense' = [DenseTake(dense, uid, TRUE, value, ub) EXCEPT
                        !.set[uid] = <<value>>, !.ops = @ + 1]
        /\ last' = "Set"
        /\ UNCHANGED <<machineVars, buildVars, paramVars, animVars, blend, puppet, combined,
                       small>>

\* dm.Take(id), the reference only read
DmTake ==
    \E uid \in Uids, ub \in Outside :
        /\ ~dense.fault
        /\ dense.ops < MaxDenseOps
        /\ dense' = [DenseTake(dense, uid, FALSE, Empty, ub) EXCEPT
                        !.set[uid] = IF @ = <<>> THEN <<Empty>> ELSE @, !.ops = @ + 1]
        /\ last' = "Take"
        /\ UNCHANGED <<machineVars, buildVars, paramVars, animVars, blend, puppet, combined,
                       small>>

\* dm.Remove(id, maintainOrder)
DmRemove ==
    \E uid \in Uids, maintainOrder \in BOOLEAN, ub \in Outside :
        /\ ~dense.fault
        /\ dense.ops < MaxDenseOps
        /\ dense' = [DenseRemove(dense, uid, maintainOrder, ub) EXCEPT
                        !.set[uid] = <<>>, !.ops = @ + 1]
        /\ last' = "Remove"
        /\ UNCHANGED <<machineVars, buildVars, paramVars, animVars, blend, puppet, combined,
                       small>>

NextDense == DmSet \/ DmTake \/ DmRemove

SpecDense == InitDense /\ [][NextDense]_vars

(***************************************************************************)
(* id::SmallSet (id.h 928-973).  Remove is followed through its loop: pc   *)
(* is "test" at the loop condition, "body" at the comparison inside, and   *)
(* "idle" when no Remove is running.  itr is an index into ids: begin() is *)
(* 1 and end() is Len(ids) + 1.  before is the content when Remove was     *)
(* called.                                                                 *)
(***************************************************************************)
\* SmallSet::Has
Has(ids, uid) == \E i \in 1..Len(ids) : ids[i] = uid

InitSmall ==
    /\ cfg = "two"
    /\ m = NewMachine(DefOf(cfg))
    /\ input \in {[speed |-> 0, jump |-> FALSE]}
    /\ log = <<>>
    /\ last = "new"
    /\ ticks = Off
    /\ BuildIdle
    /\ ParamIdle
    /\ AnimIdle
    /\ blend = NoBlend
    /\ puppet = NoPuppet
    /\ combined = NoCombined
    /\ dense = NoDense
    /\ small = NoSmall

\* s.Add(id)
SsAdd ==
    \E uid \in Uids :
        /\ small.pc = "idle"
        /\ small' = [small EXCEPT !.ids = IF Has(@, uid) THEN @ ELSE Append(@, uid)]
        /\ last' = "Add"
        /\ UNCHANGED <<machineVars, buildVars, paramVars, animVars, blend, puppet, combined,
                       dense>>

\* s.Remove(id) called with an existing identifier: itr = m_ids.begin()
SsRemove ==
    \E uid \in Uids :
        /\ small.pc = "idle"
        /\ small' = [small EXCEPT !.pc = "test", !.itr = 1, !.id = uid, !.before = small.ids]
        /\ last' = "Remove"
        /\ UNCHANGED <<machineVars, buildVars, paramVars, animVars, blend, puppet, combined,
                       dense>>

\* while (itr != m_ids.end())
SsTest ==
    /\ small.pc = "test"
    /\ small' = [small EXCEPT !.pc = IF small.itr # Len(small.ids) + 1 THEN "body" ELSE "idle"]
    /\ UNCHANGED <<machineVars, last, buildVars, paramVars, animVars, blend, puppet, combined,
                   dense>>

\* if (itr->uid == id.uid) { m_ids.erase(itr); break; }
SsBody ==
    /\ small.pc = "body"
    /\ small' = IF small.ids[small.itr] = small.id
                THEN [small EXCEPT !.ids = Erased(@, small.itr - 1), !.pc = "idle"]
                ELSE [small EXCEPT !.pc = "test"]
    /\ UNCHANGED <<machineVars, last, buildVars, paramVars, animVars, blend, puppet, combined,
                   dense>>

NextSmall == SsAdd \/ SsRemove \/ SsTest \/ SsBody

\* A Remove that was called keeps running.
SpecSmall == InitSmall /\ [][NextSmall]_vars /\ WF_vars(SsTest) /\ WF_vars(SsBody)

(***************************************************************************)
(* The Start hook of the binding (anim.h 595-626) on a new animator, for   *)
(* every way the four sources of options and the weight can set a field.   *)
(* The params are those of every field with one default: delay, duration,  *)
(* sleep and clipStart default to 0; repeat, clipEnd and scale to 1.       *)
(***************************************************************************)
\* The fields of AnimationOptions that ApplyOptions reads with a default.
FieldsOf(defaultValue) ==
    IF defaultValue = 0 THEN {"delay", "duration", "sleep", "clipStart"}
    ELSE {"repeat", "clipEnd", "scale"}

\* AnimationOptions with the fields of one default set to a param.
OptionsOf(defaultValue, param) ==
    [f \in DOMAIN NoOptions |-> IF f \in FieldsOf(defaultValue) THEN param ELSE ParamUnset]

\* anim::Start, transitionRequests: none for a state with a sub-machine,
\* else the state's animation with the options of its definition joined
\* with the transition's and then with its weight.
StartRequests(hasSub, animation, defOptions, transOptions, weight) ==
    IF hasSub THEN <<>>
    ELSE <<[anim |-> animation,
            options |-> OptionsJoin(OptionsJoin(defOptions, transOptions), weight)]>>

\* anim::Start: subject.Transition(transitionRequests, options, transitionOutro)
AnimStart(set, hasSub, animation, defOptions, transOptions, weight, outro) ==
    AnimatorTransition(set,
                       StartRequests(hasSub, animation, defOptions, transOptions, weight),
                       outro)

\* The params of the animation, of its attribute, of the state's definition,
\* of the transition and of the weight, in that order.
StartParams ==
    {<<a, b, c, d, e>> : a \in Params, b \in Params, c \in {ParamUnset, ParamSet(2)},
                         d \in Params, e \in Params}

InitStart ==
    /\ MachineIdle
    /\ last = "new"
    /\ BuildIdle
    /\ pdefault \in ParamDefaults
    /\ pparams \in StartParams
    /\ pvalue = <<>>
    /\ AnimIdle
    /\ ExtraIdle

\* Start(subject, state, trans, nullptr) for a state without a sub-machine
StStart ==
    /\ last = "new"
    /\ attributes' =
          AnimStart(attributes, FALSE,
                    [name |-> "clip", options |-> OptionsOf(pdefault, pparams[1]),
                     attributes |-> <<[attribute |-> "P",
                                       options |-> OptionsOf(pdefault, pparams[2]),
                                       points |-> Ramp]>>],
                    OptionsOf(pdefault, pparams[3]), OptionsOf(pdefault, pparams[4]),
                    OptionsOf(pdefault, pparams[5]), {})
    /\ last' = "Start"
    /\ UNCHANGED <<machineVars, buildVars, paramVars, values, alog, extraVars>>

NextStart == StStart

SpecStart == InitStart /\ [][NextStart]_vars

(***************************************************************************)
(* The root animation machine driven as anim_test.cpp 181-214 drives it:   *)
(* Init, then Update followed by Apply on every tick, the hooks being      *)
(* anim::Start, anim::Apply and anim::IsDone on an animator of one         *)
(* attribute.  The animation of a state is named by the state's id, every  *)
(* animation has a duration and repeats, so an animator is not done when   *)
(* it is created; definitions and transitions carry no options.            *)
(***************************************************************************)
TickCfgs == {"two", "fuzzy"}

\* The animation of a state: two iterations of one second for the states a
\* machine starts in; one second after a delay of one second, for ever,
\* for the others.
TickAnimation(id) ==
    IF id \in {"idle", "walk"}
    THEN AnimationOf(id, [NoOptions EXCEPT !.duration = ParamSet(1), !.repeat = ParamSet(2)])
    ELSE AnimationOf(id, [NoOptions EXCEPT !.delay = ParamSet(1), !.duration = ParamSet(1),
                                           !.repeat = ParamSet(-1)])

\* AttributeSet::IsAnimating
IsAnimating(set, animation) ==
    /\ set # <<>>
    /\ \E i \in 1..Len(set[1].animators) :
          ~set[1].animators[i].done /\ set[1].animators[i].animation = animation

\* The ends of the global transitions that fire in an Update.
GlobalStarted(mach, in) ==
    LET c == MachineTransitions(Ctx(mach, <<>>), MDef(mach).transitions, HasStates(mach),
                                "", [input |-> in, done |-> {}, fail |-> {}])
    IN  IF MDef(mach).options.FullyActive THEN {}
        ELSE {c.log[i].end : i \in {j \in 1..Len(c.log) : c.log[j].res = "fired"}}

\* anim::IsDone as UpdateActive hears it during one Update: of the states it
\* visits, those whose animation the subject is not animating.  The states
\* the Update's global transitions started have an animator that is not done;
\* the other starts of the Update are of states that are not active.
TickDone(mach, set, in) ==
    {id \in AllIds(MDef(mach)) : ~IsAnimating(set, id)} \ GlobalStarted(mach, in)

\* The subject after the calls of anim::Start a log records, from the i-th
\* event on: the outro is the state a transition leaves, if any.
RECURSIVE StartsFrom(_, _, _, _, _)
StartsFrom(set, mach, in, lg, i) ==
    IF i > Len(lg) THEN set
    ELSE StartsFrom(
            IF lg[i].k = "trans" /\ lg[i].res = "fired"
            THEN AnimStart(set, FALSE, TickAnimation(lg[i].end), NoOptions, NoOptions,
                           GetWeight(NewActive(GetState(MDef(mach), lg[i].end), in)),
                           IF lg[i].outro = "" THEN {} ELSE {lg[i].outro})
            ELSE set,
            mach, in, lg, i + 1)

\* The states Machine::Apply hands the hook.
Handed(mach) == [i \in 1..Len(mach.applicable) |-> mach.active[mach.applicable[i]]]

\* anim::Apply: the weights pushed, then subject.Update(1)
AnimApply(set, value, active) ==
    LET c == ApplyWeights(NoBlend, set, active)
    IN  IF c.set = <<>> THEN [set |-> c.set, value |-> value, log |-> <<>>]
        ELSE LET r == AttributeUpdate(c.set[1], 1, value)
             IN  [set |-> <<r.attr>>, value |-> r.value, log |-> r.log]

\* Animator{}, animator.Set(attribute, 7), Machine(def, animator)
InitTick ==
    /\ cfg \in TickCfgs
    /\ m = NewMachine(DefOf(cfg))
    /\ input \in Inputs
    /\ log = <<>>
    /\ last = "new"
    /\ ticks = Off
    /\ BuildIdle
    /\ ParamIdle
    /\ attributes = <<>>
    /\ values = 7
    /\ alog = <<>>
    /\ ExtraIdle

\* machine.Init(update)
TkInit ==
    /\ last = "new"
    /\ \E c \in {MachineInit(Ctx(m, <<>>), [input |-> input, done |-> {}, fail |-> {}])} :
          /\ m' = c.m
          /\ log' = c.log
          /\ attributes' = StartsFrom(attributes, m, input, c.log, 1)
    /\ alog' = <<>>
    /\ last' = "Init"
    /\ UNCHANGED <<cfg, input, ticks, buildVars, paramVars, values, extraVars>>

\* The driver sets the input, then machine.Update(update)
TkUpdate ==
    /\ last \in {"Init", "Apply"}
    /\ attributes # <<>> => attributes[1].frame < MaxFrames
    /\ \E in \in Inputs :
          \E c \in {MachineUpdate(Ctx(m, <<>>),
                                  [input |-> in, done |-> TickDone(m, attributes, in),
                                   fail |-> {}])} :
              /\ input' = in
              /\ m' = c.m
              /\ log' = c.log
              /\ attributes' = StartsFrom(attributes, m, in, c.log, 1)
    /\ alog' = <<>>
    /\ last' = "Update"
    /\ UNCHANGED <<cfg, ticks, buildVars, paramVars, values, extraVars>>

\* machine.Apply(update): the hook is called unless Apply returned early.
TkApply ==
    /\ last = "Update"
    /\ \E c \in {MachineApply(Ctx(m, <<>>))} :
          \E r \in {IF c.log = <<>>
                    THEN [set |-> attributes, value |-> values, log |-> <<>>]
                    ELSE AnimApply(attributes, values, Handed(c.m))} :
              /\ m' = c.m
              /\ log' = c.log
              /\ attributes' = r.set
              /\ values' = r.value
              /\ alog' = r.log
    /\ last' = "Apply"
    /\ UNCHANGED <<cfg, input, ticks, buildVars, paramVars, extraVars>>

NextTick == TkInit \/ TkUpdate \/ TkApply

SpecTick == InitTick /\ [][NextTick]_vars

(***************************************************************************)
(* The properties of the machine.                                          *)
(***************************************************************************)
\* The events of one kind the last call logged.
Events(kind) == {log[i] : i \in {j \in 1..Len(log) : log[j].k = kind}}

\* The ids of the states of a definition, in definition order.
DefIds(def) == [i \in 1..Len(def.states) |-> def.states[i].id]

\* C1, as stated: in the two-state machine driven by the schedule (speed 0
\* for the first LowTicks ticks, 1.0 after), the active list is exactly {idle}
\* after each of the first LowTicks ticks and exactly {running} after the
\* tick that follows them.
C1_AsStated ==
    (cfg = "two" /\ ticks # Off) =>
        /\ ticks[1] \in 1..LowTicks => Ids(m.active) = <<"idle">>
        /\ ticks[1] = LowTicks + 1 => Ids(m.active) = <<"running">>

\* C1, amended: the active list is exactly {idle} after each of the first
\* LowTicks ticks; the tick that follows them removes idle and only queues
\* running, so the active list is empty after it; from the tick after that
\* to the end of the schedule the active list is exactly {running}.
C1_TwoStateSchedule ==
    (cfg = "two" /\ ticks # Off) =>
        /\ ticks[1] \in 1..LowTicks =>
              Ids(m.active) = <<"idle">> /\ m.queue = <<>>
        /\ ticks[1] = LowTicks + 1 =>
              m.active = <<>> /\ Ids(m.queue) = <<"running">>
        /\ ticks[1] \in (LowTicks + 2)..ScheduleTicks =>
              Ids(m.active) = <<"running">> /\ m.queue = <<>>

\* The schedule has reached the second tick at the raised speed, and running
\* is the active state.
C1_Witness ==
    /\ cfg = "two"
    /\ ticks = <<LowTicks + 2>>
    /\ last = "Update"
    /\ Ids(m.active) = <<"running">>

\* C2: with the Finite() options the applicable list holds at most one state
\* after any sequence of Init, Update and Apply, and so does every list Apply
\* hands to the apply hook.
C2_FiniteAppliesAtMostOne ==
    MDef(m).options = Finite =>
        /\ Len(m.applicable) <= 1
        /\ \A e \in Events("apply") : e.mach = m.def => Len(e.ids) <= 1

\* Apply of a finite machine has just handed one state to the apply hook.
C2_Witness ==
    /\ MDef(m).options = Finite
    /\ last = "Apply"
    /\ Len(m.applicable) = 1
    /\ \E e \in Events("apply") : e.mach = m.def /\ Len(e.ids) = 1

\* C3: a transition considered while its end state is in the active list of
\* its machine is skipped, whatever its condition evaluates to: the start
\* hook is not invoked (it neither fired nor was refused), so nothing is
\* queued and it is not counted.
C3_ActiveEndSkipped ==
    \A e \in Events("trans") :
        (\E i \in 1..Len(e.active) : e.active[i] = e.end) =>
            e.res \in {"active", "filtered"}

\* A transition that passes the only-live filter, whose condition holds and
\* whose end state is active, was skipped.
C3_Witness ==
    \E e \in Events("trans") :
        /\ \E i \in 1..Len(e.active) : e.active[i] = e.end
        /\ e.holds
        /\ (e.live \/ ~e.onlyLive)
        /\ e.res = "active"

\* C4: in a machine that is not fully active, during an Update that visits the
\* active state S: a live transition of S passes the only-live filter whether
\* or not S is done; a deferred transition of S passes it only when S was
\* determined done, and does not fire when S is not done.  Update visits
\* every state of the active list: in a machine that does not process its
\* queue at the end of Update, the states Update leaves active are the
\* states it visited and did not remove.
C4_LiveAndDeferred ==
    /\ \A e \in Events("left") :
          LET trs == GetState(DefOf(e.mach), e.id).transitions
          IN  /\ Len(e.res) = Len(trs)
              /\ \A j \in 1..Len(trs) :
                    /\ IsLive(trs[j]) => e.res[j] # "filtered"
                    /\ ~IsLive(trs[j]) =>
                          /\ e.res[j] # "filtered" => e.done
                          /\ ~e.done => e.res[j] # "fired"
    /\ ( /\ last = "Update"
         /\ ~MDef(m).options.FullyActive
         /\ ~MDef(m).options.ProcessQueueImmediately ) =>
            \A i \in 1..Len(m.active) :
                \E e \in Events("left") :
                    e.mach = m.def /\ e.id = m.active[i].id /\ ~e.removed

\* A state that is not done was visited: its live transition fired and its
\* deferred transition was filtered out.
C4_Witness ==
    \E e \in Events("left") :
        LET trs == GetState(DefOf(e.mach), e.id).transitions
        IN  /\ ~e.done
            /\ \E j \in 1..Len(trs) : IsLive(trs[j]) /\ e.res[j] = "fired"
            /\ \E j \in 1..Len(trs) : ~IsLive(trs[j]) /\ e.res[j] = "filtered"

\* C5: an active state with a sub-machine whose queue is not empty is not
\* determined done, whatever the done hook answers.
C5_QueuedSubNotDone ==
    \A e \in Events("visit") : (e.hasSub /\ e.subQueue > 0) => ~e.done

\* A state with a sub-machine was visited while the sub-machine had a queued
\* state and active states all of which the done hook reports done.
C5_Witness ==
    \E e \in Events("visit") :
        /\ e.hasSub
        /\ e.subQueue > 0
        /\ Len(e.subIds) > 0
        /\ \A i \in 1..Len(e.subIds) : e.subIds[i] \in e.reported
        /\ ~e.done

\* The machine of C6: fully active, no global transitions, no cap on the
\* active states.
Blended(mach) ==
    /\ MDef(mach).options.FullyActive
    /\ MDef(mach).transitions = <<>>
    /\ MDef(mach).options.ActiveMax = 0

\* C6: for a fully active machine with no global transitions and ActiveMax 0:
\* Init of the new machine, when the start hook succeeds for every state,
\* queues one Active per defined state in definition order; every Update,
\* whatever the input and the done hook's answers, appends the queue to the
\* active list and otherwise leaves the membership and order of the active
\* list unchanged.  So the first Update after Init makes the active list the
\* defined states in definition order, and later Updates keep it.
C6_FullyActiveStays ==
    [][ Blended(m) =>
          /\ ( /\ last' = "Init"
               /\ m.active = <<>> /\ m.queue = <<>>
               /\ \A e \in {log'[i] : i \in 1..Len(log')} : e.k = "start" => e.ok ) =>
                  m'.active = <<>> /\ Ids(m'.queue) = DefIds(MDef(m))
          /\ last' = "Update" =>
                  Ids(m'.active) = Ids(m.active) \o Ids(m.queue) /\ m'.queue = <<>>
      ]_vars

\* The active list of the fully active machine holds every defined state in
\* definition order after an Update at a speed at which a transition of one
\* of them holds.
C6_Witness ==
    /\ Blended(m)
    /\ last = "Update"
    /\ input.speed = 10
    /\ Len(m.active) > 0
    /\ Ids(m.active) = DefIds(MDef(m))

(***************************************************************************)
(* The properties of the builder and of Param.                             *)
(***************************************************************************)
\* C7: AddTransition throws when the end state of the transition, or its
\* start state when it has one, is not a state of the definition, and then
\* leaves the definition as it was; otherwise it throws nothing and appends
\* the transition to the transitions of the (first) state with the id of the
\* start, or to the global list when the transition has no start, changing
\* nothing else.
C7_AddTransitionChecked ==
    [][ bres'.op = "AddTransition" =>
          LET t == bres'.t
              endOk == \E i \in 1..Len(bdef.states) : bdef.states[i].id = t.end
              startOk == \E i \in 1..Len(bdef.states) : bdef.states[i].id = t.start
              first == CHOOSE i \in 1..Len(bdef.states) :
                          /\ bdef.states[i].id = t.start
                          /\ \A j \in 1..(i - 1) : bdef.states[j].id # t.start
          IN  IF ~endOk \/ (t.hasStart /\ ~startOk)
              THEN bres'.thrown # "none" /\ bdef' = bdef
              ELSE /\ bres'.thrown = "none"
                   /\ IF t.hasStart
                      THEN /\ bdef'.transitions = bdef.transitions
                           /\ Len(bdef'.states) = Len(bdef.states)
                           /\ \A i \in 1..Len(bdef.states) :
                                 bdef'.states[i] =
                                    IF i = first
                                    THEN [bdef.states[i] EXCEPT !.transitions = Append(@, t)]
                                    ELSE bdef.states[i]
                      ELSE /\ bdef'.transitions = Append(bdef.transitions, t)
                           /\ bdef'.states = bdef.states
      ]_vars

\* AddTransition has thrown for a transition whose end is defined and whose
\* start is not, on a definition that holds a state and a transition.
C7_Witness ==
    /\ bres.op = "AddTransition"
    /\ bres.thrown = "start"
    /\ HasState(bdef, bres.t.end)
    /\ ~HasState(bdef, bres.t.start)
    /\ TransitionCount(bdef) > 0

\* The left-to-right fold of C8: the value after the params but the last,
\* replaced on set, added to on add, multiplied on multiply, kept on unset.
RECURSIVE FoldLeft(_, _)
FoldLeft(defaultValue, params) ==
    IF params = <<>> THEN defaultValue
    ELSE LET before == FoldLeft(defaultValue, SubSeq(params, 1, Len(params) - 1))
             p == params[Len(params)]
         IN  CASE p.type = "set" -> p.value
               [] p.type = "add" -> before + p.value
               [] p.type = "multiply" -> before * p.value
               [] p.type = "unset" -> before

\* C8: Joins returns the left-to-right fold of the params from the default;
\* default 1 with [set 2, add 3, multiply 2] gives 10, and the same params in
\* the order [multiply 2, add 3, set 2] give 2.
C8_JoinsFoldsLeft ==
    pvalue # <<>> =>
        /\ pvalue[1] = FoldLeft(pdefault, pparams)
        /\ ( pdefault = 1 /\ pparams = <<ParamSet(2), ParamOf(3, "add"), ParamOf(2, "multiply")>> )
              => pvalue[1] = 10
        /\ ( pdefault = 1 /\ pparams = <<ParamOf(2, "multiply"), ParamOf(3, "add"), ParamSet(2)>> )
              => pvalue[1] = 2

\* Joins has returned 10 for default 1 and [set 2, add 3, multiply 2].
C8_Witness ==
    /\ pdefault = 1
    /\ pparams = <<ParamSet(2), ParamOf(3, "add"), ParamOf(2, "multiply")>>
    /\ pvalue = <<10>>

(***************************************************************************)
(* The properties of the animator.                                         *)
(***************************************************************************)
\* The updates of animators that were not done: an animator done at its
\* construction is not updated.
Updated == {alog[i] : i \in {j \in 1..Len(alog) : ~alog[j].before.done}}

C10_ValueKeptUnlessApplied ==
    [][ last' = "AUpdate" =>
          \/ values' = values
          \/ \E i \in 1..Len(alog') : alog'[i].a.apply /\ alog'[i].a.scale > 0
      ]_vars

\* After its second Update or a later one, with no animator left and none
\* updated, the attribute still has the value it was set to.
C10_Witness ==
    /\ last = "AUpdate"
    /\ attributes # <<>>
    /\ attributes[1].frame >= 2
    /\ attributes[1].animators = <<>>
    /\ alog = <<>>
    /\ values = 7

\* The states of the root machine whose turn in the next UpdateActive is
\* known before the Update: the active states and, when no ActiveMax cuts
\* the queue, the queued states, in that order.
Slots == m.active \o (IF MDef(m).options.ActiveMax = 0 THEN m.queue ELSE <<>>)

\* The events of one kind the next call logs of the root machine, in order.
NextEvents(kind) == SelectSeq(log', LAMBDA e : e.k = kind /\ e.mach = m.def)

\* C16: the weight of an Active State is the effect of its definition on the
\* input at the time it is instantiated.  An Update recomputes it, on the
\* input of that Update, when the definition has an effect function flagged
\* live, the state has no sub-machine and, in a machine that is not fully
\* active, IsDone returned false for it in that Update; in every other case
\* the weight after its turn, still active or erased, is the weight before.
C16_WeightRecomputedOnlyWhenLive ==
    [][last' = "Update" =>
        /\ \A j \in 1..Len(m'.queue) :
              m'.queue[j].effect = GetEffect(ADef(m', m'.queue[j]), input')
        /\ IF MDef(m).options.FullyActive
           THEN \A i \in 1..Len(Slots) :
                   /\ m'.active[i].id = Slots[i].id
                   /\ m'.active[i].effect =
                         IF ADef(m, Slots[i]).effectFn # "none" /\ ADef(m, Slots[i]).effectLive
                               /\ ~HasSub(Slots[i])
                         THEN EffectFn(ADef(m, Slots[i]).effectFn, input')
                         ELSE Slots[i].effect
           ELSE \A i \in 1..Len(Slots) :
                   /\ NextEvents("visit")[i].id = Slots[i].id
                   /\ NextEvents("left")[i].id = Slots[i].id
                   /\ NextEvents("left")[i].effect =
                         IF ADef(m, Slots[i]).effectFn # "none" /\ ADef(m, Slots[i]).effectLive
                               /\ ~HasSub(Slots[i]) /\ ~NextEvents("visit")[i].done
                         THEN EffectFn(ADef(m, Slots[i]).effectFn, input')
                         ELSE Slots[i].effect]_vars

\* An Update of the fuzzy machine found walk, whose effect function is live,
\* done: it left walk with a weight that is not its effect on the input of
\* that Update.
C16_Witness ==
    /\ cfg = "fuzzy"
    /\ last = "Update"
    /\ \E e \in Events("left") :
          /\ e.id = "walk" /\ e.done /\ e.effect # EffectFn("rest", input)

(***************************************************************************)
(* The properties of the Apply hook.                                       *)
(***************************************************************************)
\* The sum of a field of the records of a sequence, from the i-th on.
RECURSIVE SumFrom(_, _, _)
SumFrom(f, seq, i) ==
    IF i > Len(seq) THEN 0 ELSE seq[i][f] + SumFrom(f, seq, i + 1)

\* The pushes of the last Apply whose state's scale exceeds minEffectiveScale.
Effective == SelectSeq(blend.pushed, LAMBDA p : p.scale > blend.minEffectiveScale)

\* C11: after an Apply, with total the sum of the scales of the flattened
\* active states whose scale exceeds minEffectiveScale, and the cases read in
\* the order they are given: if 0 < total < minTotalScale every pushed scale
\* is the state's scale times minTotalScale/total and the pushed scales sum to
\* minTotalScale; otherwise, if maxTotalScale # 0 and total > maxTotalScale,
\* they are the scale times maxTotalScale/total and sum to maxTotalScale; in
\* every other case the modifier is 1, each effective scale pushed as it is.
\* A state whose scale is at or below minEffectiveScale is pushed with 0, and
\* every flattened state is pushed once, in order.
C11_ScalesNormalised ==
    last = "Apply" =>
        LET leaves == IterateAll(blend.active, 1)
            total == SumFrom("scale", Effective, 1)
            sum == SumFrom("pushed", blend.pushed, 1)
        IN  /\ Len(blend.pushed) = Len(leaves)
            /\ \A i \in 1..Len(leaves) :
                  /\ blend.pushed[i].animation = leaves[i].id
                  /\ blend.pushed[i].scale = leaves[i].effect
                  /\ leaves[i].effect <= blend.minEffectiveScale => blend.pushed[i].pushed = 0
            /\ IF 0 < total /\ total < blend.minTotalScale
               THEN /\ sum = blend.minTotalScale
                    /\ \A i \in 1..Len(Effective) :
                          Effective[i].pushed * total = Effective[i].scale * blend.minTotalScale
               ELSE IF blend.maxTotalScale # 0 /\ total > blend.maxTotalScale
               THEN /\ sum = blend.maxTotalScale
                    /\ \A i \in 1..Len(Effective) :
                          Effective[i].pushed * total = Effective[i].scale * blend.maxTotalScale
               ELSE /\ sum = total
                    /\ \A i \in 1..Len(Effective) : Effective[i].pushed = Effective[i].scale

\* An Apply of two states of equal scale under a sub-machine, their total
\* below minTotalScale, and of a state at minEffectiveScale pushed with 0
\* beside one above it, the total above maxTotalScale.
C11_Witness ==
    /\ last = "Apply"
    /\ \/ /\ Len(blend.active) = 1 /\ HasSub(blend.active[1])
          /\ Len(blend.pushed) = 2
          /\ blend.pushed[1].scale = 12 /\ blend.pushed[2].scale = 12
          /\ blend.minTotalScale = 60 /\ blend.minEffectiveScale = 0
          /\ blend.pushed[1].pushed = 30 /\ blend.pushed[2].pushed = 30
       \/ /\ Len(blend.pushed) = 2
          /\ blend.minEffectiveScale = 12
          /\ blend.pushed[1].scale = 12 /\ blend.pushed[1].pushed = 0
          /\ blend.pushed[2].scale = 24 /\ blend.pushed[2].pushed = 12
          /\ blend.maxTotalScale = 12

(***************************************************************************)
(* The properties of the animator of two attributes.                       *)
(***************************************************************************)
\* C12: when a Transition adds incoming animators to an attribute that
\* already holds animators, each animator it held that is not done and whose
\* animation is in the outro set has afterwards stop time = its elapsed time
\* + the least delay among the incoming animators of that attribute.
C12_OutroStopsAtMinDelay ==
    [][last' = "PuTransition" =>
        \A k \in AttributeIds :
            LET pre == AnimatorsOf(puppet.attributes, k)
                post == AnimatorsOf(puppet'.attributes, k)
                incoming == (Len(pre) + 1)..Len(post)
            IN  (pre # <<>> /\ incoming # {}) =>
                    \A i \in 1..Len(pre) :
                        (~pre[i].done /\ pre[i].animation \in puppet'.outro) =>
                            \E j \in incoming :
                                /\ \A h \in incoming : post[j].delay <= post[h].delay
                                /\ post[i].stopAt = pre[i].time + post[j].delay]_vars

\* A Transition has added two animators to P, the one of delay 2 before the
\* one of delay 1, and the outro animator P held, one second old, stops at 2.
C12_Witness ==
    /\ last = "PuTransition"
    /\ Len(AnimatorsOf(puppet.attributes, "P")) = 3
    /\ LET a == AnimatorsOf(puppet.attributes, "P")
       IN  /\ a[1].animation \in puppet.outro
           /\ ~a[1].done
           /\ a[1].time = 1
           /\ a[1].stopAt = 2
           /\ a[2].delay = 2 /\ a[2].time = 0
           /\ a[3].delay = 1 /\ a[3].time = 0

\* C13: an Update of an attribute whose value is of a type no calculator is
\* registered for completes without fault and leaves the value of that
\* attribute as it was.
C13_MissingCalculatorSkips ==
    [][last' = "PuUpdate" =>
        \A k \in Valued(puppet.attributes, puppet.values) \ puppet.supported :
            /\ ~puppet'.fault
            /\ puppet'.values[k] = puppet.values[k]]_vars

\* C14: after a Transition with outro set O, every animator of either
\* attribute that is not done and whose animation is in O has a stop time
\* scheduled, whether or not its attribute received an incoming animator.
\* One the crossfade step did not stop and that was not stopping before the
\* Transition has stop time = its elapsed time; one that was stopping before
\* keeps the stop time it had.
C14_OutroAlwaysStops ==
    [][last' = "PuTransition" =>
        \A k \in AttributeIds :
            LET pre == AnimatorsOf(puppet.attributes, k)
                post == AnimatorsOf(puppet'.attributes, k)
                incoming == (Len(pre) + 1)..Len(post)
            IN  \A i \in 1..Len(post) :
                    (~post[i].done /\ post[i].animation \in puppet'.outro) =>
                        /\ post[i].stopAt >= 0
                        /\ IF i <= Len(pre) /\ incoming # {} THEN TRUE
                           ELSE IF i <= Len(pre) /\ pre[i].stopAt # -1
                                THEN post[i].stopAt = pre[i].stopAt
                                ELSE post[i].stopAt = post[i].time]_vars

\* A Transition has added animators to P and none to Q, and the outro
\* animator Q holds, one second old and not stopping before, stops at once;
\* or the outro animator Q holds, two seconds old, was to stop at 3 and is.
C14_Witness ==
    /\ last = "PuTransition"
    /\ LET p == AnimatorsOf(puppet.attributes, "P")
           q == AnimatorsOf(puppet.attributes, "Q")
       IN  /\ Len(p) >= 2 /\ p[Len(p)].time = 0 /\ p[Len(p)].animation \notin puppet.outro
           /\ Len(q) >= 1 /\ q[1].animation \in puppet.outro /\ ~q[1].done
           /\ \A i \in 1..Len(q) : q[i].time > 0
           /\ \/ q[1].time = 1 /\ q[1].stopAt = 1
              \/ q[1].time = 2 /\ q[1].stopAt = 3

(***************************************************************************)
(* The properties of the combinators of conditions.                        *)
(***************************************************************************)
\* C15: the condition Not(c1, ..., cn) is true exactly when every one of
\* c1..cn is false, for every n >= 1.
C15_NotIsNoneHolds ==
    combined.op = "Not" =>
        combined.res[1] = (\A i \in 1..Len(combined.conds) : ~CondHolds(combined.conds[i], input))

(***************************************************************************)
(* The cap on the active list.                                             *)
(***************************************************************************)
\* C17: with ActiveMax = N > 0 the active list never holds more than N
\* states, after Init and after every Update, with or without
\* ProcessQueueImmediately.
C17_ActiveCapped ==
    MDef(m).options.ActiveMax > 0 => Len(m.active) <= MDef(m).options.ActiveMax

\* An Update of the machine with ProcessQueueImmediately that left the active
\* list full after a flush at its end dropped queued states.
C17_Witness ==
    /\ cfg = "poolnow"
    /\ last = "Update"
    /\ Len(m.active) = MDef(m).options.ActiveMax
    /\ log # <<>>
    /\ log[Len(log)].k = "flush"
    /\ Len(log[Len(log)].kept) < Len(log[Len(log)].queued)
    /\ Len(log[Len(log)].kept) > 0

(***************************************************************************)
(* The dense map.                                                          *)
(***************************************************************************)
\* C18: after any sequence of Set, Take and Remove, with maintainOrder true
\* or false, every identifier set and not removed maps through Ptr and Get to
\* the value last set for it, every removed or never set identifier maps to
\* nothing, and Size is the number of identifiers present.
C18_DenseMapIsAMap ==
    ~dense.fault =>
        /\ \A uid \in Uids :
              /\ Ptr(dense, uid) = dense.set[uid]
              /\ dense.set[uid] # <<>> => DenseGet(dense, uid) = dense.set[uid][1]
        /\ Size(dense) = Cardinality({uid \in Uids : dense.set[uid] # <<>>})

(***************************************************************************)
(* The small set.                                                          *)
(***************************************************************************)
\* A Remove has returned.
Returned == small.pc = "idle" /\ last = "Remove"

\* C19: SmallSet::Remove(id) terminates for every content of the set and
\* every existing identifier (its first member, a later member, not a
\* member), and once it has returned Has(id) is false and every other
\* identifier that was in the set still is.
C19_RemoveTerminates ==
    /\ [](Returned =>
            /\ ~Has(small.ids, small.id)
            /\ \A uid \in Uids :
                  uid # small.id /\ Has(small.before, uid) => Has(small.ids, uid))
    /\ (small.pc # "idle") ~> (small.pc = "idle")

(***************************************************************************)
(* Which states UpdateActive erases.                                       *)
(***************************************************************************)
\* The events the next call logs of the root machine, in order.
NextRootLog == SelectSeq(log', LAMBDA e : e.mach = m.def)

\* Did a transition of the state the event is about fire?
Fired(e) == \E j \in 1..Len(e.res) : e.res[j] = "fired"

\* The states the next UpdateActive visits and does not find done and that
\* fire nothing, in the order of their visits.
Staying == SelectSeq(NextEvents("left"), LAMBDA e : ~(e.done \/ Fired(e)))

\* The states the flush at the end of the next Update makes active.
EndKept ==
    IF /\ MDef(m).options.ProcessQueueImmediately
       /\ NextRootLog # <<>>
       /\ NextRootLog[Len(NextRootLog)].k = "flush"
       /\ NextEvents("left") # <<>>
    THEN NextRootLog[Len(NextRootLog)].kept
    ELSE <<>>

\* C20: in an Update of a machine that is not fully active, the states
\* UpdateActive visits are the active ones after the queue was processed, and
\* a visited state is erased exactly when it was determined done or one of its
\* transitions fired: the active list afterwards holds the visited states
\* that were not done and fired nothing, in order, followed by what a flush at
\* the end of the Update added.
C20_ErasedIffDoneOrFired ==
    [][last' = "Update" /\ ~MDef(m).options.FullyActive =>
        /\ Len(NextEvents("visit")) = Len(NextEvents("left"))
        /\ Len(NextEvents("visit")) >= Len(Slots)
        /\ \A i \in 1..Len(Slots) : NextEvents("visit")[i].id = Slots[i].id
        /\ \A i \in 1..Len(NextEvents("visit")) :
              /\ NextEvents("left")[i].id = NextEvents("visit")[i].id
              /\ NextEvents("left")[i].done = NextEvents("visit")[i].done
        /\ Ids(m'.active) = Ids(Staying) \o EndKept]_vars

\* The events of one kind the last call logged of the root machine, in order.
LastEvents(kind) == SelectSeq(log, LAMBDA e : e.k = kind /\ e.mach = m.def)

\* An Update of the fuzzy machine in which the done hook was not answered
\* done for a state, a live transition of that state fired and the state is
\* no longer active, while another state, not done and firing nothing, is.
C20_Witness ==
    /\ cfg = "fuzzy"
    /\ last = "Update"
    /\ \E i, j \in 1..Len(LastEvents("left")) :
          /\ ~LastEvents("left")[i].done
          /\ LastEvents("visit")[i].reported = {}
          /\ \E r \in 1..Len(LastEvents("left")[i].res) : LastEvents("left")[i].res[r] = "fired"
          /\ ~GetActive(m, LastEvents("left")[i].id)
          /\ ~LastEvents("left")[j].done
          /\ \A r \in 1..Len(LastEvents("left")[j].res) : LastEvents("left")[j].res[r] # "fired"
          /\ GetActive(m, LastEvents("left")[j].id)

(***************************************************************************)
(* The order of the steps of Update.                                       *)
(***************************************************************************)
\* The events the last call logged of the root machine, in order.
LastRootLog == SelectSeq(log, LAMBDA e : e.mach = m.def)

\* The number of global transitions of the root machine.
GlobalCount == Len(MDef(m).transitions)

\* Is the event about a transition of an active state?
OfState(e) == e.k = "trans" /\ e.outro # ""

\* The ends of the transitions the events are about.
Ends(events) == [i \in 1..Len(events) |-> events[i].end]

\* The ends of the global transitions that fired in the last call, in order.
GlobalFired ==
    Ends(SelectSeq(SubSeq(LastRootLog, 1, GlobalCount), LAMBDA e : e.res = "fired"))

\* How many transitions of active states fired before the i-th event.
FiredOfStateBefore(i) ==
    Cardinality({j \in 1..(i - 1) : OfState(LastRootLog[j]) /\ LastRootLog[j].res = "fired"})

\* C21: within one Update of a machine that is not fully active, every global
\* transition is evaluated first; the queue they filled is flushed next; only
\* then are the active states visited and their transitions evaluated, so
\* that the queue a transition of an active state finds holds nothing but
\* what transitions of active states queued in this Update.
C21_GlobalBeforePerState ==
    (last = "Update" /\ ~MDef(m).options.FullyActive) =>
        /\ Len(LastRootLog) >= GlobalCount
        /\ \A i \in 1..GlobalCount :
              LastRootLog[i].k = "trans" /\ LastRootLog[i].outro = ""
        /\ \A i \in (GlobalCount + 1)..Len(LastRootLog) :
              /\ LastRootLog[i].k = "trans" => LastRootLog[i].outro # ""
              /\ OfState(LastRootLog[i]) => LastRootLog[i].queued = FiredOfStateBefore(i)
        /\ GlobalFired # <<>> =>
              /\ Len(LastRootLog) > GlobalCount
              /\ LastRootLog[GlobalCount + 1].k = "flush"
              /\ Len(LastRootLog[GlobalCount + 1].queued) >= Len(GlobalFired)
              /\ SubSeq(LastRootLog[GlobalCount + 1].queued,
                        Len(LastRootLog[GlobalCount + 1].queued) - Len(GlobalFired) + 1,
                        Len(LastRootLog[GlobalCount + 1].queued)) = GlobalFired

\* An Update in which a global transition fired and a transition of an active
\* state, evaluated later, found the state the global one started active.
C21_Witness ==
    /\ last = "Update"
    /\ ~MDef(m).options.FullyActive
    /\ GlobalFired # <<>>
    /\ \E i \in 1..Len(LastRootLog) :
          /\ OfState(LastRootLog[i])
          /\ \E j \in 1..Len(LastRootLog[i].active) :
                LastRootLog[i].active[j] = GlobalFired[1]

(***************************************************************************)
(* The global transitions at the start of Update.                          *)
(***************************************************************************)
\* The events the next call logs of the global transitions of the root
\* machine, in order.
NextGlobal == SubSeq(NextRootLog, 1, GlobalCount)

\* C22: at the start of an Update of a machine that is not fully active the
\* global transitions are filtered to the live ones exactly when the machine
\* holds an active or a queued state.  When it holds none, a global transition
\* that is not live is evaluated too, and the state the first one that fires
\* starts is made active in that Update: a machine left empty is seeded again.
C22_LiveOnlyIffHasStates ==
    [][(last' = "Update" /\ ~MDef(m).options.FullyActive) =>
        /\ Len(NextRootLog) >= GlobalCount
        /\ \A i \in 1..GlobalCount :
              /\ NextGlobal[i].k = "trans"
              /\ NextGlobal[i].outro = ""
              /\ NextGlobal[i].end = MDef(m).transitions[i].end
              /\ NextGlobal[i].onlyLive = (m.active # <<>> \/ m.queue # <<>>)
              /\ (NextGlobal[i].res = "filtered") =
                    ((m.active # <<>> \/ m.queue # <<>>) /\ ~IsLive(MDef(m).transitions[i]))
              /\ (m.active = <<>> /\ m.queue = <<>> /\ Eval(MDef(m).transitions[i], input')) =>
                    NextGlobal[i].res \in {"fired", "refused"}
        /\ (m.active = <<>> /\ m.queue = <<>>
              /\ \E i \in 1..GlobalCount : NextGlobal[i].res = "fired") =>
              /\ NextRootLog[GlobalCount + 1].k = "flush"
              /\ NextRootLog[GlobalCount + 1].kept # <<>>
              /\ \E i \in 1..GlobalCount :
                    /\ NextGlobal[i].res = "fired"
                    /\ \A j \in 1..(i - 1) : NextGlobal[j].res # "fired"
                    /\ NextRootLog[GlobalCount + 1].kept[1] = NextGlobal[i].end]_vars

\* An Update of the two-state machine found the machine without any state,
\* evaluated the global transition that is not live and made idle active.
C22_Witness ==
    /\ cfg = "two"
    /\ last = "Update"
    /\ LastRootLog[1].k = "trans"
    /\ LastRootLog[1].outro = ""
    /\ ~LastRootLog[1].live
    /\ ~LastRootLog[1].onlyLive
    /\ LastRootLog[1].active = <<>>
    /\ LastRootLog[1].queued = 0
    /\ LastRootLog[1].res = "fired"
    /\ GetActive(m, LastRootLog[1].end)

(***************************************************************************)
(* Init.                                                                   *)
(***************************************************************************)
\* Did the start hook refuse a state in the call the log is of?
Refused(lg) ==
    \E i \in 1..Len(lg) :
        \/ lg[i].k = "trans" /\ lg[i].res = "refused"
        \/ lg[i].k = "start" /\ ~lg[i].ok

\* C23: Init on a machine whose active list or queue is not empty does
\* nothing: no state is instantiated, no hook is called, the lists are as they
\* were.  An Init that follows an Init, the start hook refusing nothing in
\* either, leaves the machine as the first left it.
C23_InitOnlyWhenEmpty ==
    [][last' = "Init" =>
        /\ (m.active # <<>> \/ m.queue # <<>>) => (m' = m /\ log' = <<>>)
        /\ (last = "Init" /\ ~Refused(log) /\ ~Refused(log')) => m' = m]_vars

\* Init on a machine with active states, after an Update: nothing logged.
C23_Witness ==
    /\ last = "Init"
    /\ m.active # <<>>
    /\ log = <<>>

\* The ends of the global transitions the next call logs as fired, in order.
NextGlobalFired == Ends(SelectSeq(NextGlobal, LAMBDA e : e.res = "fired"))

\* C24: Init on a machine that is not fully active and holds no active and no
\* queued state evaluates every global transition, live or not: one whose
\* condition fails does nothing, one whose condition holds has the start hook
\* asked, and the queue afterwards holds the ends of those the hook accepted,
\* in order.  No Init changes the active list, which is still empty then.
C24_InitSeedsQueue ==
    [][last' = "Init" =>
        /\ m'.active = m.active
        /\ (~MDef(m).options.FullyActive /\ m.active = <<>> /\ m.queue = <<>>) =>
              /\ Len(NextRootLog) = GlobalCount
              /\ \A i \in 1..GlobalCount :
                    /\ NextGlobal[i].k = "trans"
                    /\ NextGlobal[i].end = MDef(m).transitions[i].end
                    /\ ~NextGlobal[i].onlyLive
                    /\ IF Eval(MDef(m).transitions[i], input)
                       THEN NextGlobal[i].res \in {"fired", "refused"}
                       ELSE NextGlobal[i].res = "false"
              /\ Ids(m'.queue) = NextGlobalFired
              /\ m'.active = <<>>]_vars

\* An Init of the fuzzy machine queued the ends of a global transition that
\* is not live and of one that is, and made nothing active.
C24_Witness ==
    /\ cfg = "fuzzy"
    /\ last = "Init"
    /\ m.active = <<>>
    /\ Len(m.queue) >= 2
    /\ \E i, j \in 1..GlobalCount :
          /\ LastRootLog[i].res = "fired" /\ ~LastRootLog[i].live
          /\ LastRootLog[j].res = "fired" /\ LastRootLog[j].live

(***************************************************************************)
(* The flush of the queue under ActiveMax.                                 *)
(***************************************************************************)
Least(a, b) == IF a < b THEN a ELSE b

\* The effect of a state of the root machine with a fixed effect.
EffectOf(id) == GetState(MDef(m), id).fixedEffect

\* The position of the first id of greatest effect.
Greatest(ids) ==
    CHOOSE i \in 1..Len(ids) :
        /\ \A j \in 1..Len(ids) : EffectOf(ids[j]) <= EffectOf(ids[i])
        /\ \A j \in 1..(i - 1) : EffectOf(ids[j]) < EffectOf(ids[i])

\* The ids by effect, the greatest first.
RECURSIVE Descending(_)
Descending(ids) ==
    IF ids = <<>> THEN <<>>
    ELSE <<ids[Greatest(ids)]>> \o Descending(RemoveAt(ids, Greatest(ids)))

\* The order in which a flush that has to cut takes the queued ids.
Preferred(ids) ==
    IF MDef(m).options.ActivePriority # "none" THEN Descending(ids) ELSE ids

\* What a flush keeps of the queued ids when space is left for so many.
Fitting(ids, space) ==
    IF space >= Len(ids) THEN ids ELSE SubSeq(Preferred(ids), 1, space)

\* The queue the first flush of the next Update finds.
NextQueued == Ids(m.queue) \o NextGlobalFired

\* The ends of the transitions of active states the next call logs as fired.
NextFiredOfState ==
    Ends(SelectSeq(NextRootLog, LAMBDA e : OfState(e) /\ e.res = "fired"))

\* C25: with ActiveMax > 0 a flush makes active the whole queue when it fits
\* in the space ActiveMax - |active|, and otherwise only as many queued states
\* as fit: the first ones in queue order, or in the order of ActivePriority
\* when there is one, and none when no space is left.  The rest is dropped:
\* UpdateActive visits the states that were active and the kept ones, and the
\* queue after the Update holds nothing but what transitions of active states
\* queued in it (nothing at all when the queue is processed at the end).
C25_FlushCutsToSpace ==
    [][(last' = "Update" /\ MDef(m).options.ActiveMax > 0
            /\ ~MDef(m).options.FullyActive) =>
        /\ IF NextQueued = <<>>
           THEN Ids(NextEvents("visit")) = Ids(m.active)
           ELSE /\ NextRootLog[GlobalCount + 1].k = "flush"
                /\ NextRootLog[GlobalCount + 1].queued = NextQueued
                /\ NextRootLog[GlobalCount + 1].kept =
                      Fitting(NextQueued, MDef(m).options.ActiveMax - Len(m.active))
                /\ Ids(NextEvents("visit")) =
                      Ids(m.active) \o NextRootLog[GlobalCount + 1].kept
        /\ IF MDef(m).options.ProcessQueueImmediately
           THEN /\ m'.queue = <<>>
                /\ Ids(m'.active) = Ids(Staying) \o
                      Fitting(NextFiredOfState, MDef(m).options.ActiveMax - Len(Staying))
           ELSE /\ Ids(m'.queue) = NextFiredOfState
                /\ Ids(m'.active) = Ids(Staying)]_vars

\* An Update of the machine with a comparator cut a queue of three to the two
\* of greatest effect, taking them out of queue order.
C25_Witness ==
    /\ cfg = "ranked"
    /\ last = "Update"
    /\ LastEvents("flush") # <<>>
    /\ Len(LastEvents("flush")[1].queued) = 3
    /\ Len(LastEvents("flush")[1].kept) = 2
    /\ LastEvents("flush")[1].kept # SubSeq(LastEvents("flush")[1].queued, 1, 2)
    /\ m.queue = <<>>

(***************************************************************************)
(* ProcessQueueImmediately.                                                *)
(***************************************************************************)
\* C26: with ProcessQueueImmediately the queue is empty after every Update
\* and the states that transitions of active states queued in it are active,
\* behind the states that stayed (all of them when no ActiveMax cuts).
\* Without it those states are the queue after the Update and none of them
\* was made active; the next Update flushes them first: with no ActiveMax it
\* visits the active states, then them, then what its global transitions
\* started.
C26_QueueFlushedAtEnd ==
    [][(last' = "Update" /\ ~MDef(m).options.FullyActive) =>
        /\ IF MDef(m).options.ProcessQueueImmediately
           THEN /\ m'.queue = <<>>
                /\ MDef(m).options.ActiveMax = 0 =>
                      Ids(m'.active) = Ids(Staying) \o NextFiredOfState
           ELSE /\ Ids(m'.queue) = NextFiredOfState
                /\ Ids(m'.active) = Ids(Staying)
        /\ MDef(m).options.ActiveMax = 0 =>
              Ids(NextEvents("visit")) = Ids(m.active) \o Ids(m.queue) \o NextGlobalFired]_vars

\* An Update of the tree, whose queue is processed at the end: a transition
\* of an active state fired and its end is active, the queue empty.
C26_Witness ==
    /\ cfg = "tree"
    /\ last = "Update"
    /\ m.queue = <<>>
    /\ \E i \in 1..Len(LastRootLog) :
          /\ OfState(LastRootLog[i])
          /\ LastRootLog[i].res = "fired"
          /\ ~GetActive(m, LastRootLog[i].outro)
          /\ GetActive(m, LastRootLog[i].end)

(***************************************************************************)
(* Duplicates.                                                             *)
(***************************************************************************)
\* Is the id one of the ids?
Among(id, ids) == \E i \in 1..Len(ids) : ids[i] = id

\* How many of the ids are the id?
Count(id, ids) == Cardinality({i \in 1..Len(ids) : ids[i] = id})

\* Does the i-th global transition of the root machine, under the input,
\* pass the only-live filter of the next call and hold?
Passes(i, onlyLive, in) ==
    /\ ~(onlyLive /\ ~IsLive(MDef(m).transitions[i]))
    /\ Eval(MDef(m).transitions[i], in)

\* C27: a transition is skipped as a duplicate only when its end is in the
\* active list; the queue is not looked at.  A global transition that passes
\* the filter and holds, its end not active, has the start hook asked, however
\* many states of that id are queued already; when two such transitions of one
\* call have the same end, the hook is asked for each and, when it accepts,
\* the queue holds one more state of that id for each.
C27_DuplicatesOnlyAgainstActive ==
    [][(last' \in {"Init", "Update"} /\ ~MDef(m).options.FullyActive
            /\ (last' = "Init" => m.active = <<>> /\ m.queue = <<>>)) =>
        /\ Len(NextRootLog) >= GlobalCount
        /\ \A i \in 1..GlobalCount :
              /\ NextGlobal[i].k = "trans"
              /\ (NextGlobal[i].res = "active") =
                    (/\ ~(NextGlobal[i].onlyLive /\ ~IsLive(MDef(m).transitions[i]))
                     /\ Among(MDef(m).transitions[i].end, Ids(m.active)))
              /\ (NextGlobal[i].res \in {"fired", "refused"}) =
                    (/\ Passes(i, NextGlobal[i].onlyLive, input')
                     /\ ~Among(MDef(m).transitions[i].end, Ids(m.active)))
        /\ \A id \in {MDef(m).transitions[i].end : i \in 1..GlobalCount} :
              Count(id, IF last' = "Init" THEN Ids(m'.queue)
                        ELSE IF NextQueued = <<>> THEN <<>>
                        ELSE NextRootLog[GlobalCount + 1].queued)
                 = Count(id, Ids(m.queue)) + Count(id, NextGlobalFired)]_vars

\* An Update of the fuzzy machine in which two global transitions to hop
\* both fired: two states hop were queued and flushed, and are active.
C27_Witness ==
    /\ cfg = "fuzzy"
    /\ last = "Update"
    /\ Count("hop", GlobalFired) = 2
    /\ Count("hop", Ids(m.active)) = 2

(***************************************************************************)
(* A start hook that refuses.                                              *)
(***************************************************************************)
\* The sum of the counts Transitions returned for the states the events are
\* about.
RECURSIVE Transitioned(_)
Transitioned(events) ==
    IF events = <<>> THEN 0 ELSE events[1].n + Transitioned(Tail(events))

\* The states the next UpdateActive does not find done and for which
\* Transitions returns 0, in the order of their visits.
Untouched == SelectSeq(NextEvents("left"), LAMBDA e : ~e.done /\ e.n = 0)

\* C28: a transition whose condition holds and whose start hook refuses
\* queues nothing and is not counted.  The count Transitions returns for a
\* state is the number of its transitions the hook accepted and the number of
\* states the call queued; a state that is not done stays active exactly when
\* that count is 0, refusals or not.  The same holds of the global
\* transitions: the queue grows by the number the hook accepted.
C28_RefusedNotCounted ==
    [][(last' = "Update" /\ ~MDef(m).options.FullyActive) =>
        /\ \A i \in 1..Len(NextEvents("left")) :
              NextEvents("left")[i].n =
                 Count("fired", NextEvents("left")[i].res)
        /\ Len(NextFiredOfState) = Transitioned(NextEvents("left"))
        /\ IF MDef(m).options.ProcessQueueImmediately
           THEN MDef(m).options.ActiveMax = 0 =>
                   /\ Len(m'.active) = Len(Untouched) + Transitioned(NextEvents("left"))
                   /\ SubSeq(Ids(m'.active), 1, Len(Untouched)) = Ids(Untouched)
           ELSE /\ Len(m'.queue) = Transitioned(NextEvents("left"))
                /\ Ids(m'.active) = Ids(Untouched)
        /\ NextQueued # <<>> =>
              Len(NextRootLog[GlobalCount + 1].queued) =
                 Len(m.queue) + Count("fired", [i \in 1..GlobalCount |-> NextGlobal[i].res])]_vars

\* An Update in which the start hook refused the only transition of a state
\* that held: Transitions returned 0 for the state, not done, and it is
\* still active, with nothing queued.
C28_Witness ==
    /\ last = "Update"
    /\ ~MDef(m).options.FullyActive
    /\ m.queue = <<>>
    /\ \E i \in 1..Len(LastEvents("left")) :
          /\ ~LastEvents("left")[i].done
          /\ LastEvents("left")[i].n = 0
          /\ Count("refused", LastEvents("left")[i].res) > 0
          /\ Count(LastEvents("left")[i].id, Ids(m.active)) > 0

(***************************************************************************)
(* Apply.                                                                  *)
(***************************************************************************)
\* C29: Apply on a machine whose active list is empty does nothing: the
\* apply hook is not called and the active list, the queue and the applicable
\* list are as they were.
C29_ApplyOnEmptyIsNoOp ==
    [][(last' = "Apply" /\ m.active = <<>>) => (m' = m /\ log' = <<>>)]_vars

\* Apply on a machine emptied by an Update after an earlier Apply: the
\* applicable list of that Apply is still there, and nothing was logged.
C29_Witness ==
    /\ last = "Apply"
    /\ m.active = <<>>
    /\ m.applicable # <<>>
    /\ log = <<>>

\* The order in which an Apply that has to cut takes the active ids.
PreferredApplied(ids) ==
    IF MDef(m).options.AppliedPriority # "none" THEN Descending(ids) ELSE ids

\* The ids Apply hands to the hook.
Applied(ids) ==
    IF MDef(m).options.AppliedMax = 0 \/ Len(ids) <= MDef(m).options.AppliedMax
    THEN ids
    ELSE SubSeq(PreferredApplied(ids), 1, MDef(m).options.AppliedMax)

\* C30: Apply on a machine with active states calls the apply hook once:
\* with all of them in the order of the active list when AppliedMax is 0 or
\* not exceeded, and otherwise with exactly AppliedMax of them, the first in
\* the order of AppliedPriority when there is one, else the first of the
\* active list.  Apply leaves the active list and the queue as they were.
C30_ApplyHandsCappedList ==
    [][(last' = "Apply" /\ m.active # <<>>) =>
        /\ m'.active = m.active
        /\ m'.queue = m.queue
        /\ Len(log') = 1
        /\ log'[1].k = "apply"
        /\ log'[1].ids = Applied(Ids(m.active))
        /\ Len(m'.applicable) = Len(log'[1].ids)
        /\ \A i \in 1..Len(m'.applicable) :
              m.active[m'.applicable[i]].id = log'[1].ids[i]]_vars

\* An Apply of the machine with a comparator on two active states handed
\* the hook the one of greater effect, which is not the first of the list.
C30_Witness ==
    /\ cfg = "ranked"
    /\ last = "Apply"
    /\ Len(m.active) = 2
    /\ log # <<>>
    /\ log[1].k = "apply"
    /\ Len(log[1].ids) = 1
    /\ log[1].ids[1] # m.active[1].id

\* C33: StopIn(s), s >= 0, on an animator that is not done sets its stop time
\* to its elapsed time plus s, and from then on that time stands in for its
\* natural lifetime: an Update of an animator that is not done and has a stop
\* time marks it done exactly when the new elapsed time has reached the stop
\* time, whether it repeats for ever or its natural lifetime ended earlier.
C33_StopOverridesLifetime ==
    [][ /\ last' = "StopIn" =>
              \E animation \in Animating(attributes), s \in StopDelays :
                  \A i \in 1..Len(attributes[1].animators) :
                      LET b == attributes[1].animators[i]
                      IN  attributes'[1].animators[i] =
                              IF ~b.done /\ b.animation = animation
                              THEN [b EXCEPT !.stopAt = b.time + s]
                              ELSE b
        /\ last' = "AUpdate" =>
              \A i \in 1..Len(alog') :
                  (~alog'[i].before.done /\ alog'[i].before.stopAt >= 0) =>
                      (alog'[i].a.done <=> alog'[i].a.time >= alog'[i].before.stopAt)
      ]_vars

\* One Update has marked done an animator that repeats for ever, at its stop
\* time, and has left running an animator whose natural lifetime it reached,
\* because its stop time is later.
C33_Witness ==
    /\ last = "AUpdate"
    /\ \E e \in Updated :
          /\ e.before.repeat = -1 /\ e.before.stopAt >= 0
          /\ e.before.time < e.before.stopAt /\ e.a.done
    /\ \E e \in Updated :
          /\ e.before.repeat >= 1 /\ e.before.stopAt >= 0
          /\ e.a.time >= MaxLifetime(e.before) /\ e.a.time < e.before.stopAt
          /\ ~e.a.done

\* Is a delta a value, not the -1 that stands for no value?
Valid(f) == ~IsMinusOne(f)

\* C34: after an Update of an animator that is not done and has been updated
\* before, its apply flag is TRUE exactly when the applyDelta of its new
\* elapsed time or the applyDelta of its previous elapsed time is a value; on
\* a frame where both times lie in the delay or in the sleep it does not
\* apply.
C34_AppliesIffEitherValid ==
    \A e \in Updated :
        e.before.time > 0 =>
            (e.a.apply <=> \/ Valid(ApplyDelta(e.before, e.a.time))
                           \/ Valid(ApplyDelta(e.before, e.before.time)))

\* C39: an animator of one iteration with no delay, no sleep, no stop time
\* and the clip range 0..1 whose Update lands exactly on elapsed = duration
\* has the applyDelta 1, the end of the clip, on that frame.
C39_FinalFrameAtClipEnd ==
    \A e \in Updated :
        (/\ e.before.repeat = 1 /\ e.before.sleep = 0 /\ e.before.delay = 0
         /\ e.before.clipStart = 0 /\ e.before.clipEnd = 1
         /\ e.before.stopAt = -1
         /\ e.a.time = e.before.duration)
        => e.a.applyDelta.num = e.a.applyDelta.den

\* The value of the piecewise-linear curve through the points at a time
\* between the times of the first and the last point.
Along(points, time) ==
    LET i == CHOOSE j \in 1..(Len(points) - 1) :
                 /\ points[j].time * time.den <= time.num
                 /\ time.num <= points[j + 1].time * time.den
    IN  points[i].data + ((points[i + 1].data - points[i].data)
                              * (time.num - points[i].time * time.den))
                          \div (time.den * (points[i + 1].time - points[i].time))

\* C40: whenever Attribute::Update samples LinearPath at a time between the
\* first and the last keyframe time inclusive, the output is the interpolated
\* value, the last keyframe's value at the last keyframe's time; it is not
\* whatever the scratch value held before the call.
C40_LinearPathCoversRange ==
    \A i \in 1..Len(alog) :
        LET e == alog[i]
        IN  (/\ e.applied
             /\ e.a.points[1].time * e.a.applyDelta.den <= e.a.applyDelta.num
             /\ e.a.applyDelta.num <= e.a.points[Len(e.a.points)].time * e.a.applyDelta.den)
            => e.out = Along(e.a.points, e.a.applyDelta)

\* C38: after Transition returns, the animator it installed, the last of the
\* attribute's list, has no stop time, whatever the outro set names.
C38_IncomingNeverStopped ==
    last = "Transition" =>
        attributes[1].animators[Len(attributes[1].animators)].stopAt = -1

\* C35: after Init and Update calls in any order, no two states of the root
\* machine's active list have the same id.
C35_ActiveIdsDistinct ==
    \A i, j \in 1..Len(m.active) : m.active[i].id = m.active[j].id => i = j

\* C36: the queue holds exactly the states the start hook accepted, and a
\* flush of the queue moves every one of them to the active list: none is
\* dropped.
C36_StartedBecomesActive ==
    \A e \in Events("flush") : e.kept = e.queued

\* C37: after Init, Update and Apply calls in any order, every pointer of the
\* applicable list points at a state of the active list.
C37_ApplicablePointsAtActive ==
    \A i \in 1..Len(m.applicable) : m.applicable[i] \in 1..Len(m.active)

\* C32: every field of the animator Start creates for a state without a
\* sub-machine, whose definition sets no options, resolves to the params of
\* the animation, of its attribute, of the transition and of the weight
\* joined from left to right on the field's default.
C32_StartJoinsLeftToRight ==
    (last = "Start" /\ pparams[3] = ParamUnset) =>
        \A f \in FieldsOf(pdefault) :
            attributes[1].animators[1][f] =
                Joins(pdefault, <<pparams[1], pparams[2], pparams[4], pparams[5]>>)

\* C31: on every tick of the driver, Apply advances every animator of the
\* subject once by the delta time of one second: each animator the subject
\* has after the tick's Update is updated once, in order, and its elapsed
\* time grows by one unless it was done.
C31_ApplyAdvancesEveryAnimator ==
    [][ (last = "Update" /\ last' = "Apply" /\ attributes # <<>>) =>
          /\ Len(alog') = Len(attributes[1].animators)
          /\ \A i \in 1..Len(alog') :
                /\ alog'[i].before.time = attributes[1].animators[i].time
                /\ alog'[i].before.animation = attributes[1].animators[i].animation
                /\ ~alog'[i].before.done => alog'[i].a.time = alog'[i].before.time + 1
      ]_vars

====
